---- MODULE Spec2Model ----
(***************************************************************************)
(* Knowledge-base import worker (electron/knowledge/kb-worker.ts): the     *)
(* jobs / job_items tables of one knowledge base, the single sqlite        *)
(* connection with its manual BEGIN/COMMIT/ROLLBACK, the in-memory maps    *)
(* runningByKb and inMemoryCanceledJobs, and the run loop of               *)
(* processImportJob.                                                       *)
(*                                                                         *)
(* One action is one synchronous segment of the worker's event loop: a     *)
(* message handler up to its first real suspension, or the run loop from   *)
(* the completion of one awaited file operation up to the next one.        *)
(* Everything a segment calls synchronously (processImportJob started by a *)
(* handler, scheduleNextPendingJob called from the finally block, the job  *)
(* it starts in turn) belongs to that action.                              *)
(*                                                                         *)
(* Two further parts have their own specification: the file list of one    *)
(* importFiles call and the source_path column it fills (SpecImportList),  *)
(* and the controller's worker client with its pending map, its timers and *)
(* the message channel from the worker (electron/knowledge/                *)
(* worker-client.ts, SpecClient).                                          *)
(***************************************************************************)
EXTENDS Integers, Sequences, FiniteSets, TLC

\* ---- bounds ----
MaxItems == 3    \* job items in the store, over all jobs
MaxEvents == 3   \* importFiles / pauseJob / resumeJob / cancelJob calls, worker
                 \* crashes and escaped exceptions in one behaviour

MaxPaths == 2    \* distinct file paths the sources of importFiles can name
MaxRows == 4     \* rows of job_items over all jobs, in SpecImportList
MaxTextLen == 4    \* characters of a text given to the chunker, in SpecChunk
ChunkSize == 2     \* the chunker's chunk size (2000 in the worker)
Overlap == 1       \* the chunker's overlap (200 in the worker)
MaxDocCost == 8    \* importOneFile and createNote calls, counted twice, plus
                   \* the characters of their files and notes, in SpecDocument
MaxKbOps == 4      \* calls of the knowledge base directory functions, in SpecBase
MaxEventOps == 4   \* onEvent calls, unsubscribe calls and event messages of one
                   \* worker client, together, in SpecEvents
MaxCrashes == 2    \* deaths of the worker process, in SpecReimport
MaxOpens == 3      \* openKnowledgeMetaDb calls on one store, in SpecMigrate
MaxClientOps == 4  \* calls made through worker clients and worker processes
                   \* forked, together, in SpecClient
MaxTimedOps == 3   \* clients and calls of one run with timers, in SpecClientTimers

\* every job has at least one item
MaxJobs == MaxItems

\* a collected file list can name every path and one of them again
MaxListLen == MaxPaths + 1

NoJob == 0
NoItem == 0
NoCall == 0

\* KNOWLEDGE_META_MIGRATIONS has the ids 1 .. MigrationCount
MigrationCount == 2
NoClient == 0

VARIABLES
  jobs,                 \* table jobs: sequence in created_at order of rows
  job_items,            \* table job_items: per job, the sequence of item statuses
  txSnapshot,           \* <<>> or <<tables at BEGIN>>: the open manual transaction
  dbCache,              \* TRUE iff the store handle of the knowledge base is cached
  runningByKb,          \* job id of the running loop, NoJob when the slot is empty
  inMemoryCanceledJobs, \* set of job ids
  pc,                   \* where the run loop is suspended: idle, stat, copy, cleanup
  cur,                  \* the item the suspended run loop is importing
  emitted,              \* job:update payloads sent by the last segment, in order
  lastEvt,              \* per job, progressCurrent of the last payload sent (-1: none)
  last,                 \* the call or loop step the last segment executed
  events,               \* number of calls, crashes and escaped exceptions so far
  resumed,              \* jobs resumed from 'paused' with no pauseJob, cancelJob,
                        \* crash or escaped exception since
  cancelRequested,      \* jobs for which cancelJob was called while they were
                        \* 'pending', 'processing' or 'paused'
  pauseRequested        \* jobs for which pauseJob was called while they were
                        \* 'pending', 'processing' or 'paused', with no resumeJob,
                        \* cancelJob or crash since

\* the file lists of importFiles
VARIABLES
  itemPaths,            \* table job_items: per job, the source_path of its rows
                        \* in order of insertion
  progressTotals,       \* table jobs: per job, progress_total
  importCall            \* the last importFiles call: the file list collected
                        \* from its sources, and whether it returned a job

\* the worker client of the controller process
VARIABLES
  singleton,            \* NoClient, or the client the module variable refers to
  children,             \* per client, in order of creation, the state of the
                        \* worker process it forked: running, killed (dispose
                        \* ran while it was running; its 'exit' event is still
                        \* to come) or exited ('exit' was delivered)
  clientOf,             \* per correlation id, the client the call was made on
  calls,                \* per correlation id, the method of the call made with it
  pending,              \* keys of the Maps pending of all clients (the map of a
                        \* client holds the ids of its own calls); the timer of
                        \* a call is armed exactly while its key is in the map
  requests,             \* ids of the requests whose handler has not responded
  responses,            \* responses on the way from the worker, oldest first
  settlements,          \* per correlation id, the resolve / reject invocations
                        \* made on its promise, in order
  received              \* ids of the responses a message listener has handled

\* the store's migrations
VARIABLES
  schema_migrations,    \* table schema_migrations: the ids recorded
  schemaApplied,        \* ids of the migrations whose SQL is in effect
  dbOpens                 \* the openKnowledgeMetaDb calls so far: which
                        \* migration failed (0: none), in which statement, and
                        \* whether the open returned

\* the chunker applied to one text
VARIABLES
  chunkIn,              \* the text given to the chunker
  chunkOut              \* the chunks it produced, in order

\* the documents of one store: importOneFile and handleCreateNote
VARIABLES
  documents,            \* table documents: id -> [kind, sha256 (non-null?)]
  notes,                \* table notes: document id -> content
  chunks,               \* table chunks: document id -> its rows
                        \* [chunk_index, content] in insertion order
  blobs,                \* the files under blobs/: document id -> content
  docTx,                \* <<>> or <<the tables at BEGIN>>: the open
                        \* transaction of the store's one connection
  imp,                  \* the importOneFile call in flight: its position and
                        \* its locals
  attempts              \* the importOneFile and createNote calls so far:
                        \* what they were given and how they ended (for a
                        \* file: the status of its job item)

\* the knowledge base directories under the knowledge bases root
VARIABLES
  kbDirs,               \* knowledge base id -> its directory: the manifest
                        \* kb.json, and whether meta.sqlite and blobs/ exist
  kbIds,                \* the ids createKnowledgeBase has given out
  kbLast                \* the last call: its number, operation, arguments
                        \* and whether it threw

\* the event handlers of one worker client
VARIABLES
  eventHandlers,        \* the Set eventHandlers, in insertion order
  subscriptions,        \* the onEvent calls so far: the handler function
                        \* each was given and whether its unsubscribe
                        \* function has been called
  invocations,          \* handler function -> how often it was invoked
  eventCount,           \* event messages received from the worker
  evOps                 \* onEvent calls, unsubscribe calls and event
                        \* messages so far

\* one worker serving two knowledge bases
VARIABLES
  kbStores,             \* knowledge base -> its tables jobs and job_items,
                        \* its entry of runningByKb and its run loop position
  kbCanceled,           \* inMemoryCanceledJobs: job ids of all knowledge bases
  kbCall                \* the last call: its number, method, the knowledge
                        \* base it was addressed to and the job id it carried

\* the documents the job items of one store produce, across worker deaths
VARIABLES
  itemStore,            \* the tables jobs and job_items, runningByKb and the
                        \* run loop position
  itemDbOpen,           \* the worker is alive and has the store open (dbCache)
  itemDocs,             \* the committed rows of documents: for each, the
                        \* job item whose source it was imported from
  itemCrashes           \* deaths of the worker process so far

workerVars == <<jobs, job_items, txSnapshot, dbCache, runningByKb,
                inMemoryCanceledJobs, pc, cur, emitted, lastEvt, last, events,
                resumed, cancelRequested, pauseRequested>>
listVars == <<itemPaths, progressTotals, importCall>>
clientVars == <<singleton, children, clientOf, calls, pending, requests,
                responses, settlements, received>>

vars == <<jobs, job_items, txSnapshot, dbCache, runningByKb,
          inMemoryCanceledJobs, pc, cur, emitted, lastEvt, last, events,
          resumed, cancelRequested, pauseRequested,
          itemPaths, progressTotals, importCall,
          singleton, children, clientOf,
          calls, pending, requests, responses, settlements, received,
          schema_migrations, schemaApplied, dbOpens,
          chunkIn, chunkOut,
          documents, notes, chunks, blobs, docTx, imp, attempts,
          kbDirs, kbIds, kbLast,
          eventHandlers, subscriptions, invocations, eventCount, evOps,
          kbStores, kbCanceled, kbCall,
          itemStore, itemDbOpen, itemDocs, itemCrashes>>

migrateVars == <<schema_migrations, schemaApplied, dbOpens>>
chunkVars == <<chunkIn, chunkOut>>
docVars == <<documents, notes, chunks, blobs, docTx, imp, attempts>>
kbVars == <<kbDirs, kbIds, kbLast>>
evVars == <<eventHandlers, subscriptions, invocations, eventCount, evOps>>
twoKbVars == <<kbStores, kbCanceled, kbCall>>
itemVars == <<itemStore, itemDbOpen, itemDocs, itemCrashes>>
notWorker == <<listVars, clientVars, migrateVars, chunkVars, docVars, kbVars, evVars, twoKbVars, itemVars>>
notList == <<workerVars, clientVars, migrateVars, chunkVars, docVars, kbVars, evVars, twoKbVars, itemVars>>
notClient == <<workerVars, listVars, migrateVars, chunkVars, docVars, kbVars, evVars, twoKbVars, itemVars>>
notMigrate == <<workerVars, listVars, clientVars, chunkVars, docVars, kbVars, evVars, twoKbVars, itemVars>>
notChunk == <<workerVars, listVars, clientVars, migrateVars, docVars, kbVars, evVars, twoKbVars, itemVars>>
notKb == <<workerVars, listVars, clientVars, migrateVars, chunkVars, docVars, evVars, twoKbVars, itemVars>>
notEv == <<workerVars, listVars, clientVars, migrateVars, chunkVars, docVars,
           kbVars, twoKbVars, itemVars>>
notTwoKb == <<workerVars, listVars, clientVars, migrateVars, chunkVars, docVars,
              kbVars, evVars, itemVars>>
notItem == <<workerVars, listVars, clientVars, migrateVars, chunkVars, docVars,
             kbVars, evVars, twoKbVars>>
notDoc == <<workerVars, listVars, clientVars, migrateVars, chunkVars, kbVars, evVars, twoKbVars, itemVars>>

JobStatus == {"pending", "processing", "paused", "done", "failed", "canceled"}
JobItemStatus == {"pending", "processing", "done", "failed", "skipped"}
TerminalItem == {"done", "failed", "skipped"}
FinalJob == {"done", "failed", "canceled"}

\* ---- the store handle: getDb and its recovery pass ----

RecoverJobs_Skipped(js) == js

RecoverJobs(js) ==
  [j \in DOMAIN js |->
     IF js[j].status = "processing" THEN [js[j] EXCEPT !.status = "paused"] ELSE js[j]]

RecoverItems(its) ==
  [j \in DOMAIN its |->
     [i \in DOMAIN its[j] |->
        IF its[j][i] = "processing" THEN "pending" ELSE its[j][i]]]

\* the state a segment works on: the tables as the connection sees them, the
\* in-memory maps, the run loop position and the payloads sent so far
Cur ==
  [jobs |-> jobs, items |-> job_items, runningByKb |-> runningByKb,
   canceled |-> inMemoryCanceledJobs, pc |-> pc, cur |-> cur,
   emitted |-> <<>>]

getDb(s) ==
  IF dbCache THEN s
  ELSE [s EXCEPT !.jobs = RecoverJobs(s.jobs), !.items = RecoverItems(s.items)]

\* ---- events ----

jobSummary(s, j) ==
  IF j \in DOMAIN s.jobs
    THEN [job |-> j, status |-> s.jobs[j].status,
          progressCurrent |-> s.jobs[j].progressCurrent,
          progressTotal |-> s.jobs[j].progressTotal]
    ELSE [job |-> NoJob, status |-> "null", progressCurrent |-> 0, progressTotal |-> 0]

sendEvent(s, j) == [s EXCEPT !.emitted = Append(@, jobSummary(s, j))]

\* ---- the run loop ----

SetJobStatus(s, j, st) ==
  IF j \in DOMAIN s.jobs THEN [s EXCEPT !.jobs[j].status = st] ELSE s

PendingItems(s, j) ==
  IF j \in DOMAIN s.items
    THEN {i \in DOMAIN s.items[j] : s.items[j][i] = "pending"}
    ELSE {}

doneCount_Remaining(s, j) ==
  Cardinality({i \in DOMAIN s.items[j] : s.items[j][i] \notin TerminalItem})

doneCount(s, j) ==
  Cardinality({i \in DOMAIN s.items[j] : s.items[j][i] \in TerminalItem})

hasPaused_Ignored(s) == FALSE

hasPaused(s) == \E j \in DOMAIN s.jobs : s.jobs[j].status = "paused"

PendingJobs(s) == {j \in DOMAIN s.jobs : s.jobs[j].status = "pending"}

\* ORDER BY created_at ASC LIMIT 1: jobs are numbered in creation order
OldestPendingJob(s) ==
  CHOOSE j \in PendingJobs(s) : \A k \in PendingJobs(s) : j <= k

\* the loop's exit test on the job row (lines 464-473)
LoopBreaks(s, j) ==
  \/ j \notin DOMAIN s.jobs
  \/ s.jobs[j].status \in {"done", "failed", "canceled"}
  \/ s.jobs[j].status = "paused"

RECURSIVE processImportJob(_, _)
RECURSIVE RunLoop(_, _)
RECURSIVE scheduleNextPendingJob(_)

scheduleNextPendingJob(s) ==
  IF hasPaused(s) THEN s
  ELSE IF PendingJobs(s) = {} THEN s
  ELSE processImportJob(s, OldestPendingJob(s))

\* finally block of processImportJob
LoopFinally(s) ==
  scheduleNextPendingJob(
    [s EXCEPT !.runningByKb = NoJob, !.pc = "idle", !.cur = NoItem])

NextPendingItem_Newest(s, j) ==
  CHOOSE i \in PendingItems(s, j) : \A k \in PendingItems(s, j) : i >= k

\* WHERE job_id = ? AND status = 'pending' ORDER BY created_at ASC LIMIT 1.
\* All items of a job carry the same created_at (one Date.now() per
\* importFiles call, lines 562 and 577), so within a job the ORDER BY leaves
\* every pending row tied and the row returned is the first one the store
\* reaches: it walks idx_job_items_status, whose entries for one status are
\* in rowid order, and its sorter keeps tied rows in that order. Items are
\* numbered in rowid order, the order in which handleImportFiles inserted
\* them.
NextPendingItem(s, j) ==
  CHOOSE i \in PendingItems(s, j) : \A k \in PendingItems(s, j) : i <= k

\* one pass of while(true) from its top, and on to the next suspension
RunLoop(s, j) ==
  IF j \in s.canceled THEN LoopFinally(s)
  ELSE IF LoopBreaks(s, j) THEN LoopFinally(s)
  ELSE IF PendingItems(s, j) = {}
    THEN LoopFinally(sendEvent(SetJobStatus(s, j, "done"), j))
  ELSE [s EXCEPT !.items[j][NextPendingItem(s, j)] = "processing",
                 !.pc = "stat", !.cur = NextPendingItem(s, j)]

processImportJob(s, j) ==
  IF s.runningByKb # NoJob /\ s.runningByKb # j THEN s
  ELSE RunLoop(sendEvent(SetJobStatus([s EXCEPT !.runningByKb = j], j, "processing"), j),
               j)

\* catch block of processImportJob
LoopCatch(s, j) ==
  LoopFinally(sendEvent(SetJobStatus(s, j, "failed"), j))

AfterImport_FailedAborts(s, j, i, result) ==
  LET s1 == [s EXCEPT !.items[j][i] = result]
      s2 == [s1 EXCEPT !.jobs[j].progressCurrent = doneCount(s1, j)]
  IN IF result = "failed" THEN LoopCatch(sendEvent(s2, j), j)
     ELSE RunLoop(sendEvent(s2, j), j)

\* the statements after "await importOneFile" (lines 507-522) and the next pass
AfterImport(s, j, i, result) ==
  LET s1 == [s EXCEPT !.items[j][i] = result]
      s2 == [s1 EXCEPT !.jobs[j].progressCurrent = doneCount(s1, j)]
  IN RunLoop(sendEvent(s2, j), j)

\* ---- installing the result of a segment ----

LastOf(evs, j, dflt) ==
  LET idx == {k \in 1..Len(evs) : evs[k].job = j}
  IN IF idx = {} THEN dflt
     ELSE evs[CHOOSE k \in idx : \A m \in idx : m <= k].progressCurrent

Install(s) ==
  /\ jobs' = s.jobs
  /\ job_items' = s.items
  /\ runningByKb' = s.runningByKb
  /\ inMemoryCanceledJobs' = s.canceled
  /\ pc' = s.pc
  /\ cur' = s.cur
  /\ emitted' = s.emitted
  /\ lastEvt' = [j \in 1..MaxJobs |-> LastOf(s.emitted, j, lastEvt[j])]

Call(op, j, okv) ==
  [op |-> op, job |-> j, ok |-> okv, wasRunning |-> runningByKb # NoJob,
   from |-> IF op \in {"pauseJob", "resumeJob", "cancelJob"}
              THEN getDb(Cur).jobs[j].status ELSE "none",
   recovered |-> ~dbCache /\ (RecoverJobs(jobs) # jobs \/ RecoverItems(job_items) # job_items)]

TotalItems ==
  LET F[k \in 0..Len(job_items)] == IF k = 0 THEN 0 ELSE F[k-1] + Len(job_items[k])
  IN F[Len(job_items)]

\* ---- message handlers ----

\* kb.ensureInitialized, kb.listJobs, kb.getStats: getDb and reads only
handleEnsureInitialized ==
  /\ ~dbCache
  /\ Install(getDb(Cur))
  /\ dbCache' = TRUE
  /\ last' = Call("ensureInitialized", NoJob, TRUE)
  /\ UNCHANGED <<txSnapshot, events, resumed, cancelRequested, pauseRequested>>
  /\ UNCHANGED notWorker

NewJob(n) == [status |-> "pending", progressCurrent |-> 0, progressTotal |-> n]

InsertJobAndItems_NoRollback(s, n, failAt) ==
  [s EXCEPT !.jobs = Append(@, NewJob(n)),
            !.items = Append(@, [i \in 1..(IF failAt = 0 THEN n ELSE failAt - 1) |-> "pending"])]

\* BEGIN, insertJob, one insertItem per file, COMMIT; failAt = 0: every
\* statement succeeds; failAt = k: the k-th insertItem throws and the catch
\* block rolls the transaction back
InsertJobAndItems(s, n, failAt) ==
  IF failAt = 0
    THEN [s EXCEPT !.jobs = Append(@, NewJob(n)),
                   !.items = Append(@, [i \in 1..n |-> "pending"])]
    ELSE s

NoFilesFound_Never(n) == FALSE

\* files.length === 0
NoFilesFound(n) == n = 0

\* kb.importFiles with an empty kbId or an empty sources list: the handler
\* throws before it touches the store
handleImportFilesInvalid(why) ==
  /\ events < MaxEvents
  /\ Install(Cur)
  /\ last' = Call(why, NoJob, FALSE)
  /\ events' = events + 1
  /\ UNCHANGED <<txSnapshot, dbCache, resumed, cancelRequested, pauseRequested>>
  /\ UNCHANGED notWorker

\* kb.importFiles with n resolved files. The await of resolveImportFileList
\* comes after getDb and before the first statement on the tables; a call
\* suspended there behaves as an ensureInitialized call followed by an
\* importFiles call that resolves at once.
handleImportFiles(n) ==
  /\ events < MaxEvents
  /\ TotalItems + n <= MaxItems
  /\ LET jobId == Len(jobs) + 1
         s0 == getDb(Cur)
         op == IF n = 0 THEN "importNoFiles" ELSE "importFiles"
     IN IF NoFilesFound(n)
          THEN /\ Install(s0)
               /\ last' = Call(op, NoJob, FALSE)
        ELSE IF txSnapshot # <<>>
          THEN \* db.exec("BEGIN") throws inside the open transaction
               /\ Install(s0)
               /\ last' = Call(op, NoJob, FALSE)
          ELSE LET s1 == InsertJobAndItems(s0, n, 0)
                   s2 == IF s1.runningByKb = NoJob
                           THEN processImportJob(s1, jobId) ELSE s1
                   s3 == sendEvent(s2, jobId)
               IN /\ Install(s3)
                  /\ last' = Call(op, jobId, TRUE)
  /\ dbCache' = TRUE
  /\ events' = events + 1
  /\ UNCHANGED <<txSnapshot, resumed, cancelRequested, pauseRequested>>
  /\ UNCHANGED notWorker

\* kb.importFiles with n resolved files when the failAt-th insertItem throws
\* (the store cannot write): ROLLBACK, and the call fails
ImportInsertFails(n, failAt) ==
  /\ events < MaxEvents
  /\ TotalItems + n <= MaxItems
  /\ txSnapshot = <<>>
  /\ Install(InsertJobAndItems(getDb(Cur), n, failAt))
  /\ dbCache' = TRUE
  /\ last' = Call("importFiles", NoJob, FALSE)
  /\ events' = events + 1
  /\ UNCHANGED <<txSnapshot, resumed, cancelRequested, pauseRequested>>
  /\ UNCHANGED notWorker

Pausable_Any == JobStatus

\* WHERE id = ? AND status IN ('pending','processing')
Pausable == {"pending", "processing"}

handlePauseJob(j) ==
  /\ events < MaxEvents
  /\ LET s0 == getDb(Cur)
         s1 == IF s0.jobs[j].status \in Pausable
                 THEN SetJobStatus(s0, j, "paused") ELSE s0
     IN Install(sendEvent(s1, j))
  /\ dbCache' = TRUE
  /\ last' = Call("pauseJob", j, TRUE)
  /\ events' = events + 1
  /\ resumed' = {}
  /\ pauseRequested' =
       IF getDb(Cur).jobs[j].status \in {"pending", "processing", "paused"}
         THEN pauseRequested \cup {j} ELSE pauseRequested
  /\ UNCHANGED <<txSnapshot, cancelRequested>>
  /\ UNCHANGED notWorker

handleResumeJob(j) ==
  /\ events < MaxEvents
  /\ LET s0 == getDb(Cur)
         s1 == IF s0.jobs[j].status \in {"paused", "pending"}
                 THEN SetJobStatus(s0, j, "pending") ELSE s0
         s2 == IF s1.runningByKb = NoJob THEN processImportJob(s1, j) ELSE s1
         s3 == sendEvent(s2, j)
     IN        /\ Install(s3)
  /\ dbCache' = TRUE
  /\ last' = Call("resumeJob", j, TRUE)
  /\ events' = events + 1
  /\ resumed' = IF getDb(Cur).jobs[j].status = "paused" THEN resumed \cup {j} ELSE resumed
  /\ pauseRequested' = pauseRequested \ {j}
  /\ UNCHANGED <<txSnapshot, cancelRequested>>
  /\ UNCHANGED notWorker

handleCancelJob(j) ==
  /\ events < MaxEvents
  /\ LET s0 == getDb([Cur EXCEPT !.canceled = @ \cup {j}])
         s1 == SetJobStatus(s0, j, "canceled")
         s2 == [s1 EXCEPT !.items[j] =
                  [i \in DOMAIN @ |->
                     IF @[i] \in {"pending", "processing"} THEN "skipped" ELSE @[i]]]
     IN Install(sendEvent(s2, j))
  /\ dbCache' = TRUE
  /\ last' = Call("cancelJob", j, TRUE)
  /\ events' = events + 1
  /\ resumed' = {}
  /\ cancelRequested' =
       IF getDb(Cur).jobs[j].status \in {"pending", "processing", "paused"}
         THEN cancelRequested \cup {j} ELSE cancelRequested
  /\ pauseRequested' = pauseRequested \ {j}
  /\ UNCHANGED txSnapshot
  /\ UNCHANGED notWorker

\* ---- run loop segments ----

\* fs.promises.stat settles: failure, not a regular file, or a file, in which
\* case importOneFile runs on to BEGIN and the first read of the stream
StatSettles(outcome) ==
  /\ pc = "stat"
  /\ IF outcome = "file"
       THEN /\ txSnapshot' = <<[jobs |-> jobs, items |-> job_items]>>
            /\ pc' = "copy"
            /\ emitted' = <<>>
            /\ UNCHANGED <<jobs, job_items, runningByKb, inMemoryCanceledJobs,
                           cur, lastEvt>>
       ELSE /\ Install(AfterImport(Cur, runningByKb, cur,
                                     IF outcome = "missing" THEN "failed" ELSE "skipped"))
            /\ UNCHANGED txSnapshot
  /\ last' = Call(IF outcome = "missing" THEN "statError" ELSE "stat", runningByKb, TRUE)
  /\ UNCHANGED <<dbCache, events, resumed, cancelRequested, pauseRequested>>
  /\ UNCHANGED notWorker

\* the stream ends: COMMIT and done / skipped and the rest of the loop pass;
\* or an exception: ROLLBACK, then the catch block waits for fs.promises.rm
CopySettles(outcome) ==
  /\ pc = "copy"
  /\ IF outcome = "error"
       THEN /\ jobs' = txSnapshot[1].jobs
            /\ job_items' = txSnapshot[1].items
            /\ pc' = "cleanup"
            /\ emitted' = <<>>
            /\ UNCHANGED <<runningByKb, inMemoryCanceledJobs, cur, lastEvt>>
       ELSE Install(AfterImport(Cur, runningByKb, cur, outcome))
  /\ txSnapshot' = <<>>
  /\ last' = Call(IF outcome = "error" THEN "rollback" ELSE "commit", runningByKb, TRUE)
  /\ UNCHANGED <<dbCache, events, resumed, cancelRequested, pauseRequested>>
  /\ UNCHANGED notWorker

\* fs.promises.rm of the unfinished blob settles: importOneFile returns
\* 'failed' and the loop pass goes on
CleanupSettles ==
  /\ pc = "cleanup"
  /\ Install(AfterImport(Cur, runningByKb, cur, "failed"))
  /\ last' = Call("cleanup", runningByKb, TRUE)
  /\ UNCHANGED <<txSnapshot, dbCache, events, resumed, cancelRequested, pauseRequested>>
  /\ UNCHANGED notWorker

\* an exception escapes the per-item handling (importOneFile rejects before
\* its own try block): catch, then finally
LoopThrows ==
  /\ events < MaxEvents
  /\ pc = "stat"
  /\ Install(LoopCatch(Cur, runningByKb))
  /\ last' = Call("throw", runningByKb, TRUE)
  /\ events' = events + 1
  /\ resumed' = {}
  /\ UNCHANGED <<txSnapshot, dbCache, cancelRequested, pauseRequested>>
  /\ UNCHANGED notWorker

\* the worker process dies: memory is lost, the open transaction is not committed
Crash ==
  /\ events < MaxEvents
  /\ dbCache
  /\ jobs' = IF txSnapshot # <<>> THEN txSnapshot[1].jobs ELSE jobs
  /\ job_items' = IF txSnapshot # <<>> THEN txSnapshot[1].items ELSE job_items
  /\ txSnapshot' = <<>>
  /\ dbCache' = FALSE
  /\ runningByKb' = NoJob
  /\ inMemoryCanceledJobs' = {}
  /\ pc' = "idle"
  /\ cur' = NoItem
  /\ emitted' = <<>>
  /\ last' = Call("crash", NoJob, TRUE)
  /\ events' = events + 1
  /\ resumed' = {}
  /\ pauseRequested' = {}
  /\ UNCHANGED <<lastEvt, cancelRequested>>
  /\ UNCHANGED notWorker

\* the worker dies inside getDb, between the two UPDATE statements of the
\* recovery pass (each is committed on its own)
CrashInGetDb ==
  /\ ~dbCache
  /\ RecoverJobs(jobs) # jobs
  /\ jobs' = RecoverJobs(jobs)
  /\ emitted' = <<>>
  /\ last' = Call("crash", NoJob, TRUE)
  /\ resumed' = {}
  /\ UNCHANGED <<job_items, txSnapshot, dbCache, runningByKb, inMemoryCanceledJobs,
                 pc, cur, lastEvt, events, cancelRequested, pauseRequested>>
  /\ UNCHANGED notWorker

\* a new store: no job
NewStore ==
  /\ jobs = <<>>
  /\ job_items = <<>>

\* the store a worker left that died while job 1 was importing its one file
\* and job 2 was queued behind it
StoreAfterCrash ==
  /\ jobs = <<[status |-> "processing", progressCurrent |-> 0, progressTotal |-> 1],
              [status |-> "pending", progressCurrent |-> 0, progressTotal |-> 1]>>
  /\ job_items = <<<<"processing">>, <<"pending">>>>

\* a worker process that has just started, and the rest of the program
WorkerStarts ==
  /\ txSnapshot = <<>>
  /\ dbCache = FALSE
  /\ runningByKb = NoJob
  /\ inMemoryCanceledJobs = {}
  /\ pc = "idle"
  /\ cur = NoItem
  /\ emitted = <<>>
  /\ lastEvt = [j \in 1..MaxJobs |-> -1]
  /\ last = [op |-> "init", job |-> NoJob, ok |-> TRUE, wasRunning |-> FALSE,
             from |-> "none",
             recovered |-> FALSE]
  /\ events = 0
  /\ resumed = {}
  /\ cancelRequested = {}
  /\ pauseRequested = {}
  /\ itemPaths = <<>>
  /\ progressTotals = <<>>
  /\ importCall = [op |-> "init", files |-> <<>>, ok |-> TRUE]
  /\ singleton = NoClient
  /\ children = <<>>
  /\ clientOf = <<>>
  /\ calls = <<>>
  /\ pending = {}
  /\ requests = {}
  /\ responses = <<>>
  /\ settlements = <<>>
  /\ received = {}
  /\ schema_migrations = {}
  /\ schemaApplied = {}
  /\ dbOpens = <<>>
  /\ chunkIn = <<>>
  /\ chunkOut = <<>>
  /\ documents = <<>>
  /\ notes = <<>>
  /\ chunks = <<>>
  /\ blobs = <<>>
  /\ docTx = <<>>
  /\ imp = [pc |-> "idle", doc |-> 0, pieces |-> <<>>, carry |-> <<>>,
            chunkIndex |-> 0, canIndex |-> FALSE, decidedBinary |-> FALSE]
  /\ attempts = <<>>
  /\ kbDirs = <<>>
  /\ kbIds = 0
  /\ kbStores = [kb \in {"X", "Y"} |->
                   [jobs |-> <<>>, items |-> <<>>, runningByKb |-> 0,
                    pc |-> "idle", cur |-> 0]]
  /\ kbCanceled = {}
  /\ itemStore = [jobs |-> <<>>, items |-> <<>>, runningByKb |-> 0,
                  pc |-> "idle", cur |-> 0]
  /\ itemDbOpen = FALSE
  /\ itemDocs = <<>>
  /\ itemCrashes = 0
  /\ kbCall = [n |-> 0, op |-> "init", kb |-> "X", id |-> <<"X", 0>>]
  /\ eventHandlers = <<>>
  /\ subscriptions = <<>>
  /\ invocations = [h \in {"logs", "throws"} |-> 0]
  /\ eventCount = 0
  /\ evOps = 0
  /\ kbLast = [n |-> 0, op |-> "init", kbId |-> 0, confirmed |-> FALSE,
               threw |-> FALSE]

Init == NewStore /\ WorkerStarts

Next ==
  \/ handleEnsureInitialized
  \/ \E why \in {"importNoKbId", "importNoSources"} : handleImportFilesInvalid(why)
  \/ \E n \in 0..MaxItems : handleImportFiles(n)
  \/ \E j \in DOMAIN jobs : handlePauseJob(j)
  \/ \E j \in DOMAIN jobs : handleResumeJob(j)
  \/ \E j \in DOMAIN jobs : handleCancelJob(j)
  \/ \E o \in {"missing", "notfile", "file"} : StatSettles(o)
  \/ \E o \in {"done", "skipped", "error"} : CopySettles(o)
  \/ CleanupSettles
  \/ LoopThrows
  \/ \E n \in 1..MaxItems : \E k \in 1..n : ImportInsertFails(n, k)
  \/ Crash
  \/ CrashInGetDb

Spec == Init /\ [][Next]_vars

\* the worker started on the store a crashed worker left
InitAfterCrash == StoreAfterCrash /\ WorkerStarts

\* the same worker when no crash and no escaped exception occurs
NextNoFault ==
  \/ handleEnsureInitialized
  \/ \E why \in {"importNoKbId", "importNoSources"} : handleImportFilesInvalid(why)
  \/ \E n \in 0..MaxItems : handleImportFiles(n)
  \/ \E j \in DOMAIN jobs : handlePauseJob(j)
  \/ \E j \in DOMAIN jobs : handleResumeJob(j)
  \/ \E j \in DOMAIN jobs : handleCancelJob(j)
  \/ \E o \in {"missing", "notfile", "file"} : StatSettles(o)
  \/ \E o \in {"done", "skipped", "error"} : CopySettles(o)
  \/ CleanupSettles

SpecNoFault == Init /\ [][NextNoFault]_vars

SpecAfterCrash == InitAfterCrash /\ [][NextNoFault]_vars

\* ---- the file list of importFiles and the source_path column ----
Paths == 1..MaxPaths

\* the lists the loop over the sources can collect: the paths of 'files'
\* sources and the files found under 'directory' sources, concatenated
FileLists == UNION {[1..n -> Paths] : n \in 0..MaxListLen}

resolveImportFileList_NoDedupe(files) == files

RECURSIVE SetOrder(_, _)
\* new Set(files) spread into an array: a Set keeps a value once, at the
\* position of its first insertion
SetOrder(files, out) ==
  IF files = <<>> THEN out
  ELSE SetOrder(Tail(files),
                IF \E i \in DOMAIN out : out[i] = Head(files)
                THEN out ELSE Append(out, Head(files)))

resolveImportFileList(files) == SetOrder(files, <<>>)

\* CREATE UNIQUE INDEX idx_job_items_job_source_path ON job_items(job_id,
\* source_path): the INSERT of a pair the table already holds throws
UniqueViolation(paths, j, p) == \E i \in DOMAIN paths[j] : paths[j][i] = p

RECURSIVE TotalRows(_)
TotalRows(paths) ==
  IF paths = <<>> THEN 0 ELSE Len(Head(paths)) + TotalRows(Tail(paths))

RECURSIVE InsertItems(_, _, _)
\* the insertItem.run loop over the file list, inside BEGIN .. COMMIT: ok is
\* FALSE when an INSERT threw (the catch block rolls back and rethrows)
InsertItems(paths, j, files) ==
  IF files = <<>> THEN [ok |-> TRUE, paths |-> paths]
  ELSE IF UniqueViolation(paths, j, Head(files)) THEN [ok |-> FALSE, paths |-> paths]
  ELSE InsertItems([paths EXCEPT ![j] = Append(@, Head(files))], j, Tail(files))

\* kb.importFiles as far as the file list goes: resolve the list, refuse an
\* empty one, insert the job row and one item row per file in one transaction
importFiles(collected) ==
  /\ TotalRows(itemPaths) + Len(resolveImportFileList(collected)) <= MaxRows
  /\ LET files == resolveImportFileList(collected)
         jobId == Len(itemPaths) + 1
         ins == InsertItems(Append(itemPaths, <<>>), jobId, files)
         created == files # <<>> /\ ins.ok
     IN /\ itemPaths' = IF created THEN ins.paths ELSE itemPaths
        /\ progressTotals' = IF created THEN Append(progressTotals, Len(files))
                             ELSE progressTotals
        /\ importCall' = [op |-> "importFiles", files |-> collected, ok |-> created]
  /\ UNCHANGED notList

NextImportList == \E collected \in FileLists : importFiles(collected)

SpecImportList == Init /\ [][NextImportList]_vars

\* ---- the migrations of the store (paths-node.ts) ----
\* SELECT COALESCE(MAX(id), 0) FROM schema_migrations
currentId == IF schema_migrations = {} THEN 0
             ELSE CHOOSE m \in schema_migrations : \A k \in schema_migrations : k <= m

\* KNOWLEDGE_META_MIGRATIONS.filter((m) => m.id > currentId), sorted by id
pendingMigrations == {m \in 1..MigrationCount : m > currentId}

\* openKnowledgeMetaDb on the store file. failAt is the pending migration in
\* which a statement throws (0: none), stage the statement: the migration's
\* SQL or the INSERT into schema_migrations. All pending migrations run in
\* one sqlite.transaction(): a throw rolls all of them back and the open
\* throws
migrateKnowledgeMetaDb(failAt, stage) ==
  /\ Len(dbOpens) < MaxOpens
  /\ failAt \in pendingMigrations \cup {0}
  /\ failAt = 0 => stage = "none"
  /\ failAt # 0 => stage \in {"sql", "record"}
  /\ IF failAt = 0
     THEN /\ schema_migrations' = schema_migrations \cup pendingMigrations
          /\ schemaApplied' = schemaApplied \cup pendingMigrations
     ELSE UNCHANGED <<schema_migrations, schemaApplied>>
  /\ dbOpens' = Append(dbOpens, [from |-> currentId, failAt |-> failAt,
                             stage |-> stage, ok |-> failAt = 0])
  /\ UNCHANGED notMigrate

NextMigrate ==
  \E failAt \in 0..MigrationCount : \E stage \in {"none", "sql", "record"} :
    migrateKnowledgeMetaDb(failAt, stage)

SpecMigrate == Init /\ [][NextMigrate]_vars

\* ---- the chunker (chunkTextStream) ----
\* the characters of a text: two letters and a white space
Chars == {"a", "b", " "}
Texts == UNION {[1..n -> Chars] : n \in 0..MaxTextLen}

Max(a, b) == IF a >= b THEN a ELSE b

\* String.prototype.slice(from)
SliceFrom(str, from) == SubSeq(str, from + 1, Len(str))

RECURSIVE PushLoop(_, _)
\* the while loop of push: cut chunks of chunkSize characters off the front
\* of carry, keeping the last overlap characters of each for the next
PushLoop(carry, parts) ==
  IF Len(carry) >= ChunkSize
  THEN PushLoop(SliceFrom(carry, Max(0, ChunkSize - Overlap)),
                Append(parts, SubSeq(carry, 1, ChunkSize)))
  ELSE [carry |-> carry, parts |-> parts]

\* chunker.push(text) with the chunker's carry
push(carry, text) == PushLoop(carry \o text, <<>>)

RECURSIVE TrimStart(_)
TrimStart(str) ==
  IF str # <<>> /\ Head(str) = " " THEN TrimStart(Tail(str)) ELSE str

RECURSIVE TrimEnd(_)
TrimEnd(str) ==
  IF str # <<>> /\ str[Len(str)] = " "
  THEN TrimEnd(SubSeq(str, 1, Len(str) - 1)) ELSE str

\* String.prototype.trim()
trim(str) == TrimEnd(TrimStart(str))

flush_Untrimmed(carry) == IF Len(carry) > 0 THEN <<carry>> ELSE <<>>

flush_AnyRest(carry) == <<trim(carry)>>

\* chunker.flush(): the trimmed carry, or nothing (null) when it is empty
flush(carry) ==
  LET rest == trim(carry)
  IN IF Len(rest) > 0 THEN <<rest>> ELSE <<>>

\* the chunks of a text that arrives in two pieces, cut after `cut`
\* characters: push for each piece (and for the decoder's empty tail), then
\* flush
ChunksOf(text, cut) ==
  LET first == push(<<>>, SubSeq(text, 1, cut))
      second == push(first.carry, SliceFrom(text, cut))
      tail == push(second.carry, <<>>)
  IN first.parts \o second.parts \o tail.parts \o flush(tail.carry)

\* the chunker run over one text
chunkText(text, cut) ==
  /\ chunkIn' = text
  /\ chunkOut' = ChunksOf(text, cut)
  /\ UNCHANGED notChunk

NextChunk == \E text \in Texts : \E cut \in 0..Len(text) : chunkText(text, cut)

SpecChunk == Init /\ [][NextChunk]_vars

\* ---- documents: importOneFile and handleCreateNote ----
\* the contents of a file or a note: a letter and a white space
FileTexts(maxLen) == UNION {[1..n -> {"a", " "}] : n \in 0..maxLen}

\* the contents of a file: such a text, or one with a zero byte ("NUL") in
\* one place
FileContents(maxLen) ==
  FileTexts(maxLen) \cup
    {[text EXCEPT ![at] = "NUL"] : <<text, at>> \in
       {<<t, i>> \in FileTexts(maxLen) \X (1..maxLen) : i <= Len(t)}}

\* buf.includes(0)
bufferLooksBinary(buf) == \E i \in DOMAIN buf : buf[i] = "NUL"

NoImport ==
  [pc |-> "idle", doc |-> 0, pieces |-> <<>>, carry |-> <<>>,
   chunkIndex |-> 0, canIndex |-> FALSE, decidedBinary |-> FALSE]

RECURSIVE DocCost(_)
\* two for every call so far, plus the characters it was given
DocCost(log) ==
  IF log = <<>> THEN 0 ELSE 2 + Len(Head(log).source) + DocCost(Tail(log))

\* the longest file or note one more call can be given
MaxFileLen == MaxDocCost - DocCost(attempts) - 2

\* crypto.randomUUID(): an id no earlier call has used
NewDocumentId == Len(attempts) + 1

Without(f, k) == [d \in DOMAIN f \ {k} |-> f[d]]

InsertChunks_SameIndex(rows, parts, chunkIndex) ==
  rows \o [i \in 1..Len(parts) |->
             [chunk_index |-> chunkIndex, content |-> parts[i]]]

\* for (const part of parts) insertChunk.run(.., chunkIndex++, part, ..)
InsertChunks(rows, parts, chunkIndex) ==
  rows \o [i \in 1..Len(parts) |->
             [chunk_index |-> chunkIndex + i - 1, content |-> parts[i]]]

Tables == [documents |-> documents, notes |-> notes, chunks |-> chunks]

ROLLBACK_Ignored(tx, now) == now

\* db.exec("ROLLBACK"): the tables as they were at BEGIN
ROLLBACK(tx, now) == tx[1]

updateSha_Skipped(docs, d) == docs

\* updateSha.run(hash.digest("hex"), .., documentId)
updateSha(docs, d) == [docs EXCEPT ![d].sha256 = TRUE]

\* importOneFile when stat fails or the path is not a file: 'failed' or
\* 'skipped' is returned before anything is written, and the run loop
\* records it on the job item
importWithoutFile(outcome) ==
  /\ imp.pc = "idle"
  /\ MaxFileLen >= 0
  /\ attempts' = Append(attempts, [kind |-> "file", status |-> outcome,
                                   source |-> <<>>, rm |-> "none"])
  /\ UNCHANGED <<documents, notes, chunks, blobs, docTx, imp>>
  /\ UNCHANGED notDoc

\* importOneFile up to its first wait on the reader: BEGIN, the document row
\* with sha256 NULL, the read stream and the write stream (flag wx: the blob
\* file is new). The file arrives in the buffers text[1..cut], text[cut+1..];
\* shouldIndexText tells whether its extension is a supported text extension
importBegins(text, cut, shouldIndexText) ==
  /\ imp.pc = "idle"
  /\ MaxFileLen >= 0
  /\ docTx = <<>>
  /\ docTx' = <<Tables>>
  /\ documents' = documents @@ (NewDocumentId :> [kind |-> "file", sha256 |-> FALSE])
  /\ chunks' = chunks @@ (NewDocumentId :> <<>>)
  /\ blobs' = blobs @@ (NewDocumentId :> <<>>)
  /\ imp' = [pc |-> "reading", doc |-> NewDocumentId,
             pieces |-> SelectSeq(<<SubSeq(text, 1, cut), SliceFrom(text, cut)>>,
                                  LAMBDA piece : piece # <<>>),
             carry |-> <<>>, chunkIndex |-> 0,
             canIndex |-> shouldIndexText, decidedBinary |-> FALSE]
  /\ attempts' = Append(attempts, [kind |-> "file", status |-> "processing",
                                   source |-> text, rm |-> "none"])
  /\ UNCHANGED notes
  /\ UNCHANGED notDoc

\* one turn of the for-await loop: the buffer goes to the hash and the
\* writer; an indexable file is checked for a zero byte on its first buffer
\* and then chunked, every part inserted with chunkIndex++
readBuffer ==
  /\ imp.pc = "reading"
  /\ imp.pieces # <<>>
  /\ LET buffer == Head(imp.pieces)
         pushed == push(imp.carry, buffer)
     IN /\ blobs' = [blobs EXCEPT ![imp.doc] = @ \o buffer]
        /\ IF ~imp.canIndex
           THEN /\ imp' = [imp EXCEPT !.pieces = Tail(@)]
                /\ UNCHANGED chunks
           ELSE IF ~imp.decidedBinary /\ bufferLooksBinary(buffer)
           THEN /\ imp' = [imp EXCEPT !.pieces = Tail(@),
                                      !.decidedBinary = TRUE,
                                      !.canIndex = FALSE]
                /\ UNCHANGED chunks
           ELSE /\ chunks' = [chunks EXCEPT ![imp.doc] =
                                InsertChunks(@, pushed.parts, imp.chunkIndex)]
                /\ imp' = [imp EXCEPT !.pieces = Tail(@),
                                      !.decidedBinary = TRUE,
                                      !.carry = pushed.carry,
                                      !.chunkIndex = @ + Len(pushed.parts)]
  /\ UNCHANGED <<documents, notes, docTx, attempts>>
  /\ UNCHANGED notDoc

\* the reader is at its end: the decoder's (empty) tail is pushed, the rest
\* is flushed and inserted, writer.end(), and the import waits for 'close'
readerEnds ==
  /\ imp.pc = "reading"
  /\ imp.pieces = <<>>
  /\ LET tail == push(imp.carry, <<>>)
         parts == tail.parts \o flush(tail.carry)
     IN /\ chunks' = IF imp.canIndex
                     THEN [chunks EXCEPT ![imp.doc] =
                             InsertChunks(@, parts, imp.chunkIndex)]
                     ELSE chunks
        /\ imp' = [imp EXCEPT !.pc = "closing",
                              !.carry = <<>>,
                              !.chunkIndex = IF imp.canIndex THEN @ + Len(parts) ELSE @]
  /\ UNCHANGED <<documents, notes, blobs, docTx, attempts>>
  /\ UNCHANGED notDoc

\* the writer has closed: updateSha, COMMIT, 'done' (or 'skipped' for a file
\* that is not indexed) is returned and the run loop records it on the item
writerCloses ==
  /\ imp.pc = "closing"
  /\ documents' = updateSha(documents, imp.doc)
  /\ docTx' = <<>>
  /\ attempts' = [attempts EXCEPT ![imp.doc].status =
                    IF imp.canIndex THEN "done" ELSE "skipped"]
  /\ imp' = NoImport
  /\ UNCHANGED <<notes, chunks, blobs>>
  /\ UNCHANGED notDoc

\* an exception inside the try block (the reader, the writer or a statement
\* fails): ROLLBACK, and the catch block waits for fs.promises.rm
importThrows ==
  /\ imp.pc \in {"reading", "closing"}
  /\ LET back == ROLLBACK(docTx, Tables)
     IN /\ documents' = back.documents
        /\ notes' = back.notes
        /\ chunks' = back.chunks
  /\ docTx' = <<>>
  /\ imp' = [NoImport EXCEPT !.pc = "cleanup", !.doc = imp.doc]
  /\ UNCHANGED <<blobs, attempts>>
  /\ UNCHANGED notDoc

\* fs.promises.rm(blobAbsPath, {force: true}) settles, its own failure
\* ignored; 'failed' is returned and the run loop records it on the item
blobRemoved(removed) ==
  /\ imp.pc = "cleanup"
  /\ blobs' = IF removed THEN Without(blobs, imp.doc) ELSE blobs
  /\ attempts' = [attempts EXCEPT ![imp.doc].status = "failed",
                                  ![imp.doc].rm = IF removed THEN "removed" ELSE "kept"]
  /\ imp' = NoImport
  /\ UNCHANGED <<documents, notes, chunks, docTx>>
  /\ UNCHANGED notDoc

\* handleCreateNote. BEGIN is outside its try block: while the import's
\* transaction is open it throws and nothing is written. Otherwise the
\* document, the note and the chunks (idx++ from 0) are inserted and
\* committed, or rolled back when a statement fails
handleCreateNote(content, fails) ==
  /\ MaxFileLen >= 0
  /\ IF docTx # <<>> \/ fails
     THEN /\ attempts' = Append(attempts, [kind |-> "note", status |-> "threw",
                                           source |-> content, rm |-> "none"])
          /\ UNCHANGED <<documents, notes, chunks>>
     ELSE LET pushed == push(<<>>, content)
              parts == pushed.parts \o flush(pushed.carry)
          IN /\ documents' = documents @@
                  (NewDocumentId :> [kind |-> "note", sha256 |-> FALSE])
             /\ notes' = notes @@ (NewDocumentId :> content)
             /\ chunks' = chunks @@ (NewDocumentId :> InsertChunks(<<>>, parts, 0))
             /\ attempts' = Append(attempts, [kind |-> "note", status |-> "created",
                                              source |-> content, rm |-> "none"])
  /\ UNCHANGED <<blobs, docTx, imp>>
  /\ UNCHANGED notDoc

NextDocument ==
  \/ \E outcome \in {"failed", "skipped"} : importWithoutFile(outcome)
  \/ \E text \in FileContents(MaxFileLen) : \E cut \in 0..Len(text) :
       \E shouldIndexText \in BOOLEAN : importBegins(text, cut, shouldIndexText)
  \/ readBuffer
  \/ readerEnds
  \/ writerCloses
  \/ importThrows
  \/ \E removed \in BOOLEAN : blobRemoved(removed)
  \/ \E content \in FileTexts(MaxFileLen) : \E fails \in BOOLEAN : handleCreateNote(content, fails)

SpecDocument == Init /\ [][NextDocument]_vars

\* ---- the knowledge base directories ----
\* the names a caller gives: the empty one, a blank one and a proper one
KbNames == {"", " ", "x"}

\* String.prototype.trim() of such a name
trimName(name) == IF name = " " THEN "" ELSE name

DefaultName == "unnamed"

\* input.name.trim() || default
NameOrDefault(name) == IF trimName(name) = "" THEN DefaultName ELSE trimName(name)

KbCall(op, kbId, confirmed, threw) ==
  [n |-> kbLast.n + 1, op |-> op, kbId |-> kbId, confirmed |-> confirmed,
   threw |-> threw]

\* ensureKnowledgeBaseInitialized on the directories dirs: the directory and
\* blobs/ are made, a missing (or unreadable) manifest is written with the
\* default name, and meta.sqlite is opened, migrated and closed
Initialized(dirs, kbId, now) ==
  IF kbId \in DOMAIN dirs
  THEN [dirs EXCEPT ![kbId].blobs = TRUE, ![kbId].db = TRUE]
  ELSE dirs @@ (kbId :> [manifest |-> [name |-> DefaultName, updatedAt |-> now],
                         blobs |-> TRUE, db |-> TRUE])

ensureKnowledgeBaseInitialized(kbId) ==
  /\ kbLast.n < MaxKbOps
  /\ kbDirs' = Initialized(kbDirs, kbId, kbLast.n + 1)
  /\ kbLast' = KbCall("ensure", kbId, FALSE, FALSE)
  /\ UNCHANGED kbIds
  /\ UNCHANGED notKb

\* createKnowledgeBase: a new id, its directory and manifest, then
\* ensureKnowledgeBaseInitialized
createKnowledgeBase(name) ==
  /\ kbLast.n < MaxKbOps
  /\ kbIds' = kbIds + 1
  /\ kbDirs' = Initialized(
       kbDirs @@ (kbIds' :> [manifest |-> [name |-> NameOrDefault(name),
                                           updatedAt |-> kbLast.n + 1],
                             blobs |-> FALSE, db |-> FALSE]),
       kbIds', kbLast.n + 1)
  /\ kbLast' = KbCall("create", kbIds', FALSE, FALSE)
  /\ UNCHANGED notKb

\* updateKnowledgeBaseManifest: ensureKnowledgeBaseInitialized, then the
\* manifest is rewritten: updates.name ? updates.name.trim() : current.name
updateKnowledgeBaseManifest(kbId, name) ==
  /\ kbLast.n < MaxKbOps
  /\ LET dirs == Initialized(kbDirs, kbId, kbLast.n + 1)
     IN kbDirs' = [dirs EXCEPT ![kbId].manifest =
                     [name |-> IF name # "" THEN trimName(name) ELSE @.name,
                      updatedAt |-> kbLast.n + 1]]
  /\ kbLast' = KbCall("update", kbId, FALSE, FALSE)
  /\ UNCHANGED kbIds
  /\ UNCHANGED notKb

notConfirmed_Unchecked(confirmed) == FALSE

\* if (!input.confirmed)
notConfirmed(confirmed) == ~confirmed

\* deleteKnowledgeBaseDir: throws without confirmation; returns when the
\* directory does not exist; else removes it with all it holds
deleteKnowledgeBaseDir(kbId, confirmed) ==
  /\ kbLast.n < MaxKbOps
  /\ IF notConfirmed(confirmed)
     THEN /\ kbLast' = KbCall("delete", kbId, confirmed, TRUE)
          /\ UNCHANGED kbDirs
     ELSE /\ kbLast' = KbCall("delete", kbId, confirmed, FALSE)
          /\ kbDirs' = IF kbId \in DOMAIN kbDirs THEN Without(kbDirs, kbId)
                       ELSE kbDirs
  /\ UNCHANGED kbIds
  /\ UNCHANGED notKb

NextBase ==
  \/ \E name \in KbNames : createKnowledgeBase(name)
  \/ \E kbId \in 1..kbIds : ensureKnowledgeBaseInitialized(kbId)
  \/ \E kbId \in 1..kbIds : \E name \in KbNames : updateKnowledgeBaseManifest(kbId, name)
  \/ \E kbId \in 1..kbIds : \E confirmed \in BOOLEAN : deleteKnowledgeBaseDir(kbId, confirmed)

SpecBase == Init /\ [][NextBase]_vars

\* ---- the event handlers of a worker client (onEvent) ----
\* the handler functions callers subscribe: one that returns and one that
\* throws on every event
HandlerFunctions == {"logs", "throws"}

\* Set.prototype.add: a value that is in the set is not added again
SetAdd(set, h) ==
  IF \E i \in DOMAIN set : set[i] = h THEN set ELSE Append(set, h)

\* Set.prototype.delete
SetDelete(set, h) == SelectSeq(set, LAMBDA x : x # h)

\* onEvent(handler): the handler is added to eventHandlers and an
\* unsubscribe function is returned
onEvent(handler) ==
  /\ evOps < MaxEventOps
  /\ eventHandlers' = SetAdd(eventHandlers, handler)
  /\ subscriptions' = Append(subscriptions, [handler |-> handler, unsubscribed |-> FALSE])
  /\ evOps' = evOps + 1
  /\ UNCHANGED <<invocations, eventCount>>
  /\ UNCHANGED notEv

\* the function onEvent returned for subscription k is called:
\* eventHandlers.delete(handler)
unsubscribe(k) ==
  /\ evOps < MaxEventOps
  /\ eventHandlers' = SetDelete(eventHandlers, subscriptions[k].handler)
  /\ subscriptions' = [subscriptions EXCEPT ![k].unsubscribed = TRUE]
  /\ evOps' = evOps + 1
  /\ UNCHANGED <<invocations, eventCount>>
  /\ UNCHANGED notEv

RECURSIVE Dispatch(_, _)
\* for (const handler of eventHandlers) try { handler(event) } catch {}
Dispatch(hs, inv) ==
  IF hs = <<>> THEN inv
  ELSE Dispatch(Tail(hs), [inv EXCEPT ![Head(hs)] = @ + 1])

\* the message listener receives an event message from the worker
EventReceived ==
  /\ evOps < MaxEventOps
  /\ invocations' = Dispatch(eventHandlers, invocations)
  /\ eventCount' = eventCount + 1
  /\ evOps' = evOps + 1
  /\ UNCHANGED <<eventHandlers, subscriptions>>
  /\ UNCHANGED notEv

NextEvents ==
  \/ \E handler \in HandlerFunctions : onEvent(handler)
  \/ \E k \in DOMAIN subscriptions : unsubscribe(k)
  \/ EventReceived

SpecEvents == Init /\ [][NextEvents]_vars

\* ---- one worker, two knowledge bases ----
\* Every knowledge base has its own store and its own entry of runningByKb;
\* inMemoryCanceledJobs is one set for the worker. A job id is a UUID: here
\* the pair of the knowledge base the job was created in and its number there.
Kbs == {"X", "Y"}

JobIds == {<<kb, j>> : <<kb, j>> \in
             {<<k, i>> \in Kbs \X (1..MaxJobs) : i \in DOMAIN kbStores[k].jobs}}

\* the state the handlers and the run loop of knowledge base kb work on
View(kb) ==
  [jobs |-> kbStores[kb].jobs, items |-> kbStores[kb].items,
   runningByKb |-> kbStores[kb].runningByKb,
   canceled |-> {j \in 1..MaxJobs : <<kb, j>> \in kbCanceled},
   pc |-> kbStores[kb].pc, cur |-> kbStores[kb].cur, emitted |-> <<>>]

Stored(s) ==
  [jobs |-> s.jobs, items |-> s.items, runningByKb |-> s.runningByKb,
   pc |-> s.pc, cur |-> s.cur]

\* the job id as the store of kb knows it: its number there, or a number no
\* row of that store has
LocalId(kb, id) == IF id[1] = kb THEN id[2] ELSE MaxJobs + 1

ItemsOfAll ==
  LET n(kb) == LET its == kbStores[kb].items
                   F[k \in 0..Len(its)] == IF k = 0 THEN 0 ELSE F[k-1] + Len(its[k])
               IN F[Len(its)]
  IN n("X") + n("Y")

KbCallOf(op, kb, id) == [n |-> kbCall.n + 1, op |-> op, kb |-> kb, id |-> id]

\* kb.importFiles for knowledge base kb with n files
importFilesIn(kb, n) ==
  /\ kbCall.n < MaxEvents
  /\ ItemsOfAll + n <= MaxItems
  /\ LET jobId == Len(kbStores[kb].jobs) + 1
         s1 == InsertJobAndItems(View(kb), n, 0)
         s2 == IF s1.runningByKb = NoJob THEN processImportJob(s1, jobId) ELSE s1
     IN /\ kbStores' = [kbStores EXCEPT ![kb] = Stored(s2)]
        /\ kbCall' = KbCallOf("importFiles", kb, <<kb, jobId>>)
  /\ UNCHANGED kbCanceled
  /\ UNCHANGED notTwoKb

\* kb.pauseJob {kbId: kb, jobId: id}
pauseJobIn(kb, id) ==
  /\ kbCall.n < MaxEvents
  /\ LET s0 == View(kb)
         j == LocalId(kb, id)
         s1 == IF j \in DOMAIN s0.jobs /\ s0.jobs[j].status \in Pausable
                 THEN SetJobStatus(s0, j, "paused") ELSE s0
     IN kbStores' = [kbStores EXCEPT ![kb] = Stored(s1)]
  /\ kbCall' = KbCallOf("pauseJob", kb, id)
  /\ UNCHANGED kbCanceled
  /\ UNCHANGED notTwoKb

\* kb.resumeJob {kbId: kb, jobId: id}
resumeJobIn(kb, id) ==
  /\ kbCall.n < MaxEvents
  /\ LET s0 == View(kb)
         j == LocalId(kb, id)
         s1 == IF j \in DOMAIN s0.jobs /\ s0.jobs[j].status \in {"paused", "pending"}
                 THEN SetJobStatus(s0, j, "pending") ELSE s0
         s2 == IF s1.runningByKb = NoJob THEN processImportJob(s1, j) ELSE s1
     IN kbStores' = [kbStores EXCEPT ![kb] = Stored(s2)]
  /\ kbCall' = KbCallOf("resumeJob", kb, id)
  /\ UNCHANGED kbCanceled
  /\ UNCHANGED notTwoKb

\* kb.cancelJob {kbId: kb, jobId: id}: inMemoryCanceledJobs.add(jobId), then
\* the two UPDATEs on the store of kb
cancelJobIn(kb, id) ==
  /\ kbCall.n < MaxEvents
  /\ kbCanceled' = kbCanceled \cup {id}
  /\ LET s0 == View(kb)
         j == LocalId(kb, id)
         s1 == SetJobStatus(s0, j, "canceled")
         s2 == IF j \in DOMAIN s1.items
                 THEN [s1 EXCEPT !.items[j] =
                         [i \in DOMAIN @ |->
                            IF @[i] \in {"pending", "processing"} THEN "skipped" ELSE @[i]]]
                 ELSE s1
     IN kbStores' = [kbStores EXCEPT ![kb] = Stored(s2)]
  /\ kbCall' = KbCallOf("cancelJob", kb, id)
  /\ UNCHANGED notTwoKb

\* importOneFile of the file in progress in kb returns: the rest of the
\* loop pass and the next pass
fileEndsIn(kb, result) ==
  /\ kbStores[kb].pc = "stat"
  /\ kbStores' = [kbStores EXCEPT ![kb] =
       Stored(AfterImport(View(kb), kbStores[kb].runningByKb, kbStores[kb].cur, result))]
  /\ UNCHANGED <<kbCanceled, kbCall>>
  /\ UNCHANGED notTwoKb

NextTwoKb ==
  \/ \E kb \in Kbs : \E n \in 1..MaxItems : importFilesIn(kb, n)
  \/ \E kb \in Kbs : \E id \in JobIds : pauseJobIn(kb, id)
  \/ \E kb \in Kbs : \E id \in JobIds : resumeJobIn(kb, id)
  \/ \E kb \in Kbs : \E id \in JobIds : cancelJobIn(kb, id)
  \/ \E kb \in Kbs : \E result \in {"done", "failed", "skipped"} : fileEndsIn(kb, result)

SpecTwoKb == Init /\ [][NextTwoKb]_vars

\* ---- job items and their documents across worker deaths ----
\* the state the handlers and the run loop work on; no cancelJob is called
ItemView ==
  [jobs |-> itemStore.jobs, items |-> itemStore.items,
   runningByKb |-> itemStore.runningByKb, canceled |-> {},
   pc |-> itemStore.pc, cur |-> itemStore.cur, emitted |-> <<>>]

\* getDb: the recovery pass when the store is opened
ItemGetDb(s) ==
  IF itemDbOpen THEN s
  ELSE [s EXCEPT !.jobs = RecoverJobs(s.jobs), !.items = RecoverItems(s.items)]

ItemCount ==
  LET its == itemStore.items
      F[k \in 0..Len(its)] == IF k = 0 THEN 0 ELSE F[k-1] + Len(its[k])
  IN F[Len(its)]

\* kb.importFiles with n files, when no import holds the transaction open
itemImportFiles(n) ==
  /\ ItemCount + n <= MaxItems
  /\ itemStore.pc \in {"idle", "stat"}
  /\ LET jobId == Len(itemStore.jobs) + 1
         s1 == InsertJobAndItems(ItemGetDb(ItemView), n, 0)
         s2 == IF s1.runningByKb = NoJob THEN processImportJob(s1, jobId) ELSE s1
     IN itemStore' = Stored(s2)
  /\ itemDbOpen' = TRUE
  /\ UNCHANGED <<itemDocs, itemCrashes>>
  /\ UNCHANGED notItem

\* kb.resumeJob, when no import holds the transaction open
itemResumeJob(j) ==
  /\ itemStore.pc \in {"idle", "stat"}
  /\ LET s0 == ItemGetDb(ItemView)
         s1 == IF s0.jobs[j].status \in {"paused", "pending"}
                 THEN SetJobStatus(s0, j, "pending") ELSE s0
         s2 == IF s1.runningByKb = NoJob THEN processImportJob(s1, j) ELSE s1
     IN /\ Stored(s2) # itemStore
        /\ itemStore' = Stored(s2)
  /\ itemDbOpen' = TRUE
  /\ UNCHANGED <<itemDocs, itemCrashes>>
  /\ UNCHANGED notItem

\* importOneFile: stat succeeds, BEGIN, the document row is inserted and the
\* copy starts
itemCopyBegins ==
  /\ itemStore.pc = "stat"
  /\ itemStore' = [itemStore EXCEPT !.pc = "copy"]
  /\ UNCHANGED <<itemDbOpen, itemDocs, itemCrashes>>
  /\ UNCHANGED notItem

\* the copy fails: ROLLBACK, 'failed' is returned and recorded on the item,
\* and the loop goes on
itemCopyFails ==
  /\ itemStore.pc = "copy"
  /\ itemStore' = Stored(AfterImport([ItemView EXCEPT !.pc = "stat"],
                                     itemStore.runningByKb, itemStore.cur, "failed"))
  /\ UNCHANGED <<itemDbOpen, itemDocs, itemCrashes>>
  /\ UNCHANGED notItem

\* the writer has closed: updateSha and COMMIT (lines 375-377)
itemCommits ==
  /\ itemStore.pc = "copy"
  /\ itemDocs' = Append(itemDocs, <<itemStore.runningByKb, itemStore.cur>>)
  /\ itemStore' = [itemStore EXCEPT !.pc = "committed"]
  /\ UNCHANGED <<itemDbOpen, itemCrashes>>
  /\ UNCHANGED notItem

\* importOneFile returns 'done' and the run loop records it on the item
\* (lines 505-508), then the rest of the pass and the next pass
itemStatusRecorded ==
  /\ itemStore.pc = "committed"
  /\ itemStore' = Stored(AfterImport([ItemView EXCEPT !.pc = "stat"],
                                     itemStore.runningByKb, itemStore.cur, "done"))
  /\ UNCHANGED <<itemDbOpen, itemDocs, itemCrashes>>
  /\ UNCHANGED notItem

\* the worker process dies: its memory is lost, an open transaction is not
\* committed, the committed rows stay
itemCrash ==
  /\ itemDbOpen
  /\ itemCrashes < MaxCrashes
  /\ itemStore' = [itemStore EXCEPT !.runningByKb = NoJob, !.pc = "idle", !.cur = NoItem]
  /\ itemDbOpen' = FALSE
  /\ itemCrashes' = itemCrashes + 1
  /\ UNCHANGED itemDocs
  /\ UNCHANGED notItem

NextReimport ==
  \/ \E n \in 1..MaxItems : itemImportFiles(n)
  \/ \E j \in DOMAIN itemStore.jobs : itemResumeJob(j)
  \/ itemCopyBegins
  \/ itemCopyFails
  \/ itemCommits
  \/ itemStatusRecorded
  \/ itemCrash

SpecReimport == Init /\ [][NextReimport]_vars

\* ---- the worker client (worker-client.ts) ----
\* the keys of the object literal handlers
OwnHandlers ==
  {"kb.ensureInitialized", "kb.importFiles", "kb.listJobs", "kb.pauseJob",
   "kb.resumeJob", "kb.cancelJob", "kb.search", "kb.createNote", "kb.getStats"}

\* handlers is a plain object, so handlers[method] also finds the members of
\* Object.prototype. Called as handler(params), with no receiver, toString
\* returns "[object Undefined]" and constructor returns an object; the
\* members that need a receiver (hasOwnProperty, valueOf, ...) throw
InheritedReturning == {"toString", "constructor"}
InheritedThrowing == {"hasOwnProperty", "valueOf", "toLocaleString",
                      "propertyIsEnumerable", "__proto__"}

\* the method names callers pass: one the worker serves, one it does not
\* know, one that names a member of Object.prototype
Methods == {"kb.getStats", "kb.nope", "toString"}

handlers_OwnOnly(method) ==
  IF method \in OwnHandlers THEN "handler" ELSE "undefined"

\* const handler = handlers[method]
handlers(method) ==
  IF method \in OwnHandlers THEN "handler"
  ELSE IF method \in InheritedReturning THEN "returns"
  ELSE IF method \in InheritedThrowing THEN "throws"
  ELSE "undefined"

\* whether the listener can end with respondOk (TRUE) or respondError (FALSE):
\* no handler: respondError; a handler of the table returns or throws
Responds(method) ==
  LET handler == handlers(method)
  IN IF handler = "undefined" THEN {FALSE}
     ELSE IF handler = "handler" THEN {TRUE, FALSE}
     ELSE IF handler = "returns" THEN {TRUE}
     ELSE {FALSE}

\* the ids in the Map pending of client g
PendingOf(g) == {id \in pending : clientOf[id] = g}

\* getKnowledgeWorkerClient when singleton is null: fork a worker and make its
\* client the singleton (when singleton is set the function returns it and
\* changes nothing)
getKnowledgeWorkerClient ==
  /\ singleton = NoClient
  /\ Len(calls) + Len(children) < MaxClientOps
  /\ children' = Append(children, "running")
  /\ singleton' = Len(children) + 1
  /\ UNCHANGED <<clientOf, calls, pending, requests, responses, settlements, received>>
  /\ UNCHANGED notClient

TimeoutError(method) == <<"timeout", method>>
WorkerExited == <<"exited">>

\* dispose of client g, whose child ends in state `then`: every call in its
\* map is rejected and its timer cleared, the map is emptied, the child is
\* disconnected and killed (its unanswered requests and the responses it has
\* sent but the listener has not handled are lost), and the module variable
\* singleton is set to null
dispose_KeepsSingleton(g, then) ==
  /\ settlements' = [id \in DOMAIN settlements |->
                       IF id \in PendingOf(g)
                       THEN Append(settlements[id], <<"reject", WorkerExited>>)
                       ELSE settlements[id]]
  /\ pending' = pending \ PendingOf(g)
  /\ requests' = {id \in requests : clientOf[id] # g}
  /\ responses' = SelectSeq(responses, LAMBDA res : clientOf[res.id] # g)
  /\ children' = [children EXCEPT ![g] = then]
  /\ UNCHANGED singleton

dispose(g, then) ==
  /\ settlements' = [id \in DOMAIN settlements |->
                       IF id \in PendingOf(g)
                       THEN Append(settlements[id], <<"reject", WorkerExited>>)
                       ELSE settlements[id]]
  /\ pending' = pending \ PendingOf(g)
  /\ requests' = {id \in requests : clientOf[id] # g}
  /\ responses' = SelectSeq(responses, LAMBDA res : clientOf[res.id] # g)
  /\ children' = [children EXCEPT ![g] = then]
  /\ singleton' = NoClient

\* a holder of client g calls its dispose()
Dispose(g) ==
  /\ dispose(g, IF children[g] = "running" THEN "killed" ELSE children[g])
  /\ UNCHANGED <<clientOf, calls, received>>
  /\ UNCHANGED notClient

\* the worker process of client g ends by itself: child.on("exit", dispose)
WorkerExits(g) ==
  /\ children[g] = "running"
  /\ dispose(g, "exited")
  /\ UNCHANGED <<clientOf, calls, received>>
  /\ UNCHANGED notClient

\* the transport of client g reports an error while the process runs:
\* child.on("error", dispose)
TransportError(g) ==
  /\ children[g] = "running"
  /\ dispose(g, "killed")
  /\ UNCHANGED <<clientOf, calls, received>>
  /\ UNCHANGED notClient

\* the 'exit' event of a child that dispose killed: child.on("exit", dispose)
ExitDelivered(g) ==
  /\ children[g] = "killed"
  /\ dispose(g, "exited")
  /\ UNCHANGED <<clientOf, calls, received>>
  /\ UNCHANGED notClient

\* client g's call(method, params): a fresh correlation id, a pending entry
\* with its timer, and the request sent to the worker. On a client whose
\* child is disconnected, send emits 'error' on the child before any other
\* event is handled: dispose rejects the call and sets singleton to null
call(g, method) ==
  /\ Len(calls) + Len(children) < MaxClientOps
  /\ LET id == Len(calls) + 1
     IN /\ calls' = Append(calls, method)
        /\ clientOf' = Append(clientOf, g)
        /\ IF children[g] = "running"
           THEN /\ pending' = pending \cup {id}
                /\ requests' = requests \cup {id}
                /\ settlements' = Append(settlements, <<>>)
                /\ UNCHANGED singleton
           ELSE /\ settlements' = Append(settlements, << <<"reject", WorkerExited>> >>)
                /\ singleton' = NoClient
                /\ UNCHANGED <<pending, requests>>
  /\ UNCHANGED <<children, responses, received>>
  /\ UNCHANGED notClient

\* the worker's message listener finishes the handler of one request and
\* sends respondOk(id, result) or respondError(id, error); handlers are
\* asynchronous, so requests are answered in any order
WorkerResponds(id, ok) ==
  /\ id \in requests
  /\ ok \in Responds(calls[id])
  /\ requests' = requests \ {id}
  /\ responses' = Append(responses,
        [id |-> id, ok |-> ok,
         body |-> IF ok THEN <<"result", id>> ELSE <<"error", id>>])
  /\ UNCHANGED <<singleton, children, clientOf, calls, pending, settlements, received>>
  /\ UNCHANGED notClient

MatchingCall_Oldest(res) ==
  IF pending = {} THEN NoCall
  ELSE CHOOSE c \in pending : \A d \in pending : c <= d

\* pending.get(res.id)
MatchingCall(res) == IF res.id \in pending THEN res.id ELSE NoCall

\* the position in responses of the oldest response sent by the child of g
\* (0 when there is none): each child has its own channel
OldestFrom(g) ==
  LET from == {i \in DOMAIN responses : clientOf[responses[i].id] = g}
  IN IF from = {} THEN 0 ELSE CHOOSE i \in from : \A k \in from : i <= k

ClientReceives_KeepsEntry(g) ==
  /\ OldestFrom(g) # 0
  /\ LET at == OldestFrom(g)
         res == responses[at]
         c == MatchingCall(res)
     IN /\ responses' = [i \in 1..(Len(responses) - 1) |->
                          IF i < at THEN responses[i] ELSE responses[i + 1]]
        /\ received' = received \cup {res.id}
        /\ IF c = NoCall
           THEN UNCHANGED settlements
           ELSE settlements' = [settlements EXCEPT ![c] =
                     Append(@, IF res.ok THEN <<"resolve", res.body>>
                               ELSE <<"reject", res.body>>)]
  /\ UNCHANGED <<singleton, children, clientOf, calls, pending, requests>>
  /\ UNCHANGED notClient

\* child.on("message") of client g for a response: settle the pending call
\* of that id and clear its timer, or return when there is none
ClientReceives(g) ==
  /\ OldestFrom(g) # 0
  /\ LET at == OldestFrom(g)
         res == responses[at]
         c == MatchingCall(res)
     IN /\ responses' = [i \in 1..(Len(responses) - 1) |->
                          IF i < at THEN responses[i] ELSE responses[i + 1]]
        /\ received' = received \cup {res.id}
        /\ IF c = NoCall
           THEN UNCHANGED <<pending, settlements>>
           ELSE /\ pending' = pending \ {c}
                /\ settlements' = [settlements EXCEPT ![c] =
                     Append(@, IF res.ok THEN <<"resolve", res.body>>
                               ELSE <<"reject", res.body>>)]
  /\ UNCHANGED <<singleton, children, clientOf, calls, requests>>
  /\ UNCHANGED notClient

TimerFires_KeepsEntry(id) ==
  /\ id \in pending
  /\ settlements[id] = <<>>
  /\ settlements' = [settlements EXCEPT ![id] =
                     Append(@, <<"reject", TimeoutError(calls[id])>>)]
  /\ UNCHANGED <<singleton, children, clientOf, calls, pending, requests, responses, received>>
  /\ UNCHANGED notClient

\* the setTimeout callback of call: it runs only while the timer is armed
TimerFires(id) ==
  /\ id \in pending
  /\ pending' = pending \ {id}
  /\ settlements' = [settlements EXCEPT ![id] =
                     Append(@, <<"reject", TimeoutError(calls[id])>>)]
  /\ UNCHANGED <<singleton, children, clientOf, calls, requests, responses, received>>
  /\ UNCHANGED notClient

NextClient ==
  \/ getKnowledgeWorkerClient
  \/ \E g \in DOMAIN children : \E m \in Methods : call(g, m)
  \/ \E id \in DOMAIN calls : \E ok \in BOOLEAN : WorkerResponds(id, ok)
  \/ \E g \in DOMAIN children : ClientReceives(g)
  \/ \E id \in DOMAIN calls : TimerFires(id)
  \/ \E g \in DOMAIN children : Dispose(g)
  \/ \E g \in DOMAIN children : WorkerExits(g)
  \/ \E g \in DOMAIN children : TransportError(g)
  \/ \E g \in DOMAIN children : ExitDelivered(g)

SpecClient == Init /\ [][NextClient]_vars

\* the worker client within MaxTimedOps clients and calls
NextTimers == NextClient /\ Len(calls') + Len(children') <= MaxTimedOps

\* the event loop runs every armed timer's callback once its delay has passed
SpecClientTimers ==
  /\ Init /\ [][NextTimers]_vars
  /\ \A id \in 1..MaxTimedOps : WF_vars(TimerFires(id))


\* ---- C1 ----
\* C1: in every reachable state at most one job of the knowledge base has
\* status 'processing'.
C1_AtMostOneProcessing ==
  Cardinality({j \in DOMAIN jobs : jobs[j].status = "processing"}) <= 1

\* ---- C2 ----
\* C2: the first open of the store after a crash turns every 'processing' job
\* into 'paused' and every 'processing' item into 'pending', changes no other
\* status and loses no job row; a second recovery pass changes nothing. When
\* the opening call goes on to start a run loop, the only job left
\* 'processing' is the one that loop runs and the only 'processing' item is
\* the one it imports.
C2_RecoveryOnOpen ==
  [][(~dbCache /\ dbCache') =>
       /\ Len(jobs') >= Len(jobs)
       /\ \A j \in DOMAIN jobs' :
            /\ jobs'[j].status = "processing" => runningByKb' = j
            /\ \A i \in DOMAIN job_items'[j] :
                 job_items'[j][i] = "processing" => (runningByKb' = j /\ cur' = i)
       /\ last'.op = "ensureInitialized" =>
            /\ Len(jobs') = Len(jobs)
            /\ \A j \in DOMAIN jobs :
                 /\ jobs'[j].status # "processing"
                 /\ jobs'[j] = IF jobs[j].status = "processing"
                                 THEN [jobs[j] EXCEPT !.status = "paused"]
                                 ELSE jobs[j]
                 /\ \A i \in DOMAIN job_items[j] :
                      job_items'[j][i] = IF job_items[j][i] = "processing"
                                           THEN "pending" ELSE job_items[j][i]
            /\ RecoverJobs(jobs') = jobs'
            /\ RecoverItems(job_items') = job_items']_vars

C2_Witness ==
  /\ last.op = "ensureInitialized"
  /\ last.recovered
  /\ \E j \in DOMAIN jobs :
       /\ jobs[j].status = "paused"
       /\ \E i \in DOMAIN job_items[j] : job_items[j][i] = "pending"

\* ---- C4 ----
\* C4: while a job's status is 'paused', and after pauseJob on a pending or
\* processing job as long as no resumeJob, cancelJob or crash follows, none of
\* its items moves from 'pending' to 'processing' unless the step is resumeJob
\* for that job.
C4_PausedJobStartsNoItem ==
  [][\A j \in DOMAIN jobs : \A i \in DOMAIN job_items[j] :
       ((jobs[j].status = "paused" \/ j \in pauseRequested)
          /\ job_items[j][i] = "pending"
          /\ job_items'[j][i] = "processing")
       => (last'.op = "resumeJob" /\ last'.job = j)]_vars

\* ---- C5 ----
\* C5: a job resumed from 'paused' is eventually 'done' with no item left
\* pending when no further pauseJob, cancelJob, crash or escaped exception
\* occurs. Once the run loop is idle nothing changes without a further call,
\* so every such job must be done whenever the run loop is idle.
C5_ResumedJobCompletes ==
  pc = "idle" =>
    \A j \in resumed :
      /\ jobs[j].status = "done"
      /\ \A i \in DOMAIN job_items[j] : job_items[j][i] # "pending"

\* ---- C6 ----
\* C6: whenever a job is 'done', every one of its items is 'done', 'failed'
\* or 'skipped'.
C6_DoneJobHasOnlyTerminalItems ==
  \A j \in DOMAIN jobs :
    jobs[j].status = "done" =>
      \A i \in DOMAIN job_items[j] : job_items[j][i] \in TerminalItem

\* ---- C7 ----
\* C7: progressTotal never changes after creation; progressCurrent never
\* decreases and stays within 0..progressTotal; the progressCurrent values of
\* the job:update payloads sent for one job never decrease.
NonDecreasing(seq) == \A a, b \in 1..Len(seq) : a <= b => seq[a] <= seq[b]

EventProgress(evs, j) ==
  LET F[k \in 0..Len(evs)] ==
        IF k = 0 THEN <<>>
        ELSE IF evs[k].job = j THEN Append(F[k-1], evs[k].progressCurrent) ELSE F[k-1]
  IN F[Len(evs)]

C7_ProgressMonotonic ==
  [][/\ \A j \in DOMAIN jobs :
         /\ j \in DOMAIN jobs'
         /\ jobs'[j].progressTotal = jobs[j].progressTotal
         /\ jobs'[j].progressCurrent >= jobs[j].progressCurrent
     /\ \A j \in DOMAIN jobs' :
         /\ jobs'[j].progressCurrent >= 0
         /\ jobs'[j].progressCurrent <= jobs'[j].progressTotal
         /\ NonDecreasing(<<lastEvt[j]>> \o EventProgress(emitted', j))]_vars

C7_Witness ==
  /\ last.op = "resumeJob"
  /\ last.recovered
  /\ \E j \in DOMAIN jobs :
       /\ jobs[j].progressCurrent = 1
       /\ jobs[j].progressTotal = 2
       /\ jobs[j].status = "processing"
       /\ \E k \in 1..Len(emitted) : emitted[k].job = j /\ emitted[k].progressCurrent = 1

\* ---- C8 ----
\* C8: in every stored row and every job:update payload, progressCurrent
\* equals progressTotal exactly when the status is 'done'.
C8_ProgressCompleteIffDone ==
  /\ \A j \in DOMAIN jobs :
       (jobs[j].progressCurrent = jobs[j].progressTotal) <=> (jobs[j].status = "done")
  /\ \A k \in 1..Len(emitted) :
       (emitted[k].progressCurrent = emitted[k].progressTotal)
         <=> (emitted[k].status = "done")

\* ---- C9 ----
\* C9: importFiles always succeeds; with no running job the new job is started
\* at once, with a running job the new job is left 'pending' with every item
\* 'pending'.
C9_ImportStartsOrQueues ==
  last.op = "importFiles" =>
    /\ last.ok
    /\ last.job = Len(jobs)
    /\ IF last.wasRunning
         THEN /\ jobs[last.job].status = "pending"
              /\ \A i \in DOMAIN job_items[last.job] : job_items[last.job][i] = "pending"
              /\ runningByKb # last.job
         ELSE /\ runningByKb = last.job
              /\ jobs[last.job].status = "processing"
              /\ \E i \in DOMAIN job_items[last.job] : job_items[last.job][i] = "processing"

\* ---- C10 ----
\* C10: in a step in which the run loop of a job ends, the scheduler starts a
\* pending job exactly when no job is 'paused': with a paused job no loop is
\* running afterwards and every job that was pending still is; without one,
\* a loop is running unless no job is pending, and every job still pending
\* was created after the job that was started.
LoopOps == {"stat", "statError", "commit", "cleanup", "throw"}

C10_SchedulerStartsOldestUnlessPaused ==
  [][(last'.op \in LoopOps /\ runningByKb' # runningByKb) =>
       IF \E k \in DOMAIN jobs' : jobs'[k].status = "paused"
         THEN /\ runningByKb' = NoJob
              /\ \A k \in DOMAIN jobs :
                   (k # runningByKb /\ jobs[k].status = "pending")
                     => jobs'[k].status = "pending"
         ELSE \A k \in DOMAIN jobs' :
                jobs'[k].status = "pending"
                  => (runningByKb' # NoJob /\ runningByKb' < k)]_vars

C10_Witness ==
  /\ last.op \in LoopOps
  /\ runningByKb # NoJob
  /\ runningByKb # last.job
  /\ jobs[last.job].status = "done"
  /\ jobs[runningByKb].status = "processing"
  /\ \E k \in DOMAIN jobs : jobs[k].status = "pending" /\ k > runningByKb

\* ---- C3 ----
\* C3: once a job's status is 'done', 'failed' or 'canceled' it never changes
\* again.
C3_FinalStatusIsStable ==
  [][\A j \in DOMAIN jobs :
       jobs[j].status \in FinalJob => jobs'[j].status = jobs[j].status]_vars

\* ---- C11 ----
\* C11: cancelJob on a pending, processing or paused job leaves the job
\* 'canceled'; from then on no item of the job moves to 'processing', and
\* once the run loop is no longer working on the job (the item in flight has
\* finished) none of its items is 'pending' or 'processing'.
C11_CanceledJobStartsNoItem ==
  [][\A j \in cancelRequested' :
       /\ (last'.op = "cancelJob" /\ last'.job = j) => jobs'[j].status = "canceled"
       /\ \A i \in DOMAIN job_items'[j] :
            /\ (j \in cancelRequested /\ job_items[j][i] # "processing")
                 => job_items'[j][i] # "processing"
            /\ runningByKb' # j => job_items'[j][i] \notin {"pending", "processing"}]_vars

\* ---- C12 ----
\* C12: cancelJob on a job that is 'done' changes neither the job row nor its
\* items, and a second cancelJob right after a first one on the same job
\* changes neither the job's status nor its items.
C12_CancelDoneIsNoOp ==
  [][(last'.op = "cancelJob") =>
       LET j == last'.job
       IN /\ jobs[j].status = "done" =>
               (jobs'[j] = jobs[j] /\ job_items'[j] = job_items[j])
          /\ (last.op = "cancelJob" /\ last.job = j) =>
               (jobs'[j].status = jobs[j].status /\ job_items'[j] = job_items[j])]_vars

\* ---- C13 ----
\* C13: an item changes status only from 'pending' to 'processing', from
\* 'processing' to 'done', 'failed' or 'skipped', from 'pending' to 'skipped'
\* in cancelJob, and from 'processing' back to 'pending' in the recovery pass
\* of the first open of the store; an item that is 'done', 'failed' or
\* 'skipped' never changes again.
C13_ItemStateMachine ==
  [][\A j \in DOMAIN job_items : \A i \in DOMAIN job_items[j] :
       LET a == job_items[j][i]
           b == job_items'[j][i]
       IN a # b =>
            \/ a = "pending" /\ b = "processing"
            \/ a = "processing" /\ b \in TerminalItem
            \/ a = "pending" /\ b = "skipped" /\ last'.op = "cancelJob"
            \/ a = "processing" /\ b = "pending" /\ ~dbCache /\ dbCache']_vars

\* ---- C14 ----
\* C14: when the import of one file fails (stat rejects, or the copy fails
\* and is rolled back) the item becomes 'failed' and the job does not become
\* 'failed'; unless the job was paused or canceled meanwhile, the run loop
\* starts the next pending item of the job in the same step, or marks the job
\* 'done' when none is left.
C14_FailedItemDoesNotFailJob ==
  [][(last'.op \in {"statError", "cleanup"}) =>
       LET j == runningByKb
           i == cur
       IN /\ job_items'[j][i] = "failed"
          /\ jobs'[j].status # "failed"
          /\ (j \notin inMemoryCanceledJobs /\ jobs[j].status \in {"processing", "pending"}) =>
               IF \E k \in DOMAIN job_items[j] : job_items[j][k] = "pending"
                 THEN /\ runningByKb' = j
                      /\ pc' = "stat"
                      /\ job_items[j][cur'] = "pending"
                      /\ job_items'[j][cur'] = "processing"
                 ELSE jobs'[j].status = "done"]_vars

C14_Witness ==
  /\ last.op = "cleanup"
  /\ runningByKb = last.job
  /\ pc = "stat"
  /\ jobs[last.job].status = "processing"
  /\ \E i \in DOMAIN job_items[last.job] : job_items[last.job][i] = "failed"

\* ---- C15 ----
\* C15: importFiles adds either one job row with progressCurrent 0 and one
\* item per resolved file, or no row at all; the new job is 'pending' with
\* every item 'pending' unless the same call started it, and then it is
\* 'processing' with its first item in flight. Every job's progressTotal
\* equals the number of its items.
C15_ImportIsAtomic ==
  [][/\ DOMAIN jobs' = DOMAIN job_items'
     /\ \A j \in DOMAIN jobs' : jobs'[j].progressTotal = Len(job_items'[j])
     /\ (last'.op = "importFiles") =>
          IF last'.ok
            THEN LET j == Len(jobs) + 1
                 IN /\ Len(jobs') = j
                    /\ Len(job_items') = j
                    /\ jobs'[j].progressCurrent = 0
                    /\ jobs'[j].progressTotal >= 1
                    /\ jobs'[j].status = IF runningByKb' = j THEN "processing" ELSE "pending"
                    /\ \A i \in DOMAIN job_items'[j] :
                         job_items'[j][i] =
                           IF runningByKb' = j /\ cur' = i THEN "processing" ELSE "pending"
            ELSE /\ Len(jobs') = Len(jobs)
                 /\ Len(job_items') = Len(job_items)
                 /\ \A j \in DOMAIN job_items : Len(job_items'[j]) = Len(job_items[j])]_vars

C15_Witness ==
  /\ last.op = "importFiles"
  /\ last.ok
  /\ last.wasRunning
  /\ Len(jobs) = 2
  /\ jobs[2] = [status |-> "pending", progressCurrent |-> 0, progressTotal |-> 2]
  /\ job_items[2] = <<"pending", "pending">>

\* ---- C16 ----
RejectedImport == {"importNoKbId", "importNoSources", "importNoFiles"}

\* C16 as stated: importFiles with an empty kbId, an empty sources list or
\* sources that resolve to no file fails and changes nothing in the store,
\* starts no run loop and sends no job:update.
C16_RejectedImportChangesNothing ==
  [][(last'.op \in RejectedImport) =>
       /\ ~last'.ok
       /\ jobs' = jobs
       /\ job_items' = job_items
       /\ runningByKb' = runningByKb
       /\ pc' = pc
       /\ emitted' = <<>>]_vars

\* C16 amended: such a call fails, creates no job row and no item, starts no
\* run loop and sends no job:update; the only change to the store is the
\* recovery pass when the call with sources that resolve to no file is the
\* first to open the store ('processing' jobs become 'paused', 'processing'
\* items 'pending').
C16_RejectedImportCreatesNothing ==
  [][(last'.op \in RejectedImport) =>
       LET opens == last'.op = "importNoFiles" /\ ~dbCache
       IN /\ ~last'.ok
          /\ Len(jobs') = Len(jobs)
          /\ \A j \in DOMAIN jobs :
               /\ jobs'[j] = IF opens /\ jobs[j].status = "processing"
                                THEN [jobs[j] EXCEPT !.status = "paused"] ELSE jobs[j]
               /\ Len(job_items'[j]) = Len(job_items[j])
               /\ \A i \in DOMAIN job_items[j] :
                    job_items'[j][i] = IF opens /\ job_items[j][i] = "processing"
                                          THEN "pending" ELSE job_items[j][i]
          /\ runningByKb' = runningByKb
          /\ pc' = pc
          /\ emitted' = <<>>]_vars

C16_Witness ==
  /\ last.op = "importNoFiles"
  /\ last.recovered
  /\ ~last.ok
  /\ runningByKb = NoJob
  /\ \E j \in DOMAIN jobs : jobs[j].status = "paused"

\* ---- C17 ----
\* C17 as stated: pauseJob makes a 'pending' or 'processing' job 'paused' and
\* leaves a job that is 'paused', 'done', 'failed' or 'canceled' with the same
\* status, progress and items.
C17_PauseFrame ==
  [][(last'.op = "pauseJob") =>
       LET j == last'.job
       IN IF jobs[j].status \in {"pending", "processing"}
            THEN jobs'[j].status = "paused"
            ELSE jobs'[j] = jobs[j] /\ job_items'[j] = job_items[j]]_vars

\* C17 amended: the same, on the rows as the recovery pass leaves them when
\* the call is the first to open the store: a 'processing' row is 'paused'
\* after the call either way, and a 'processing' item of the job is 'pending'
\* after such a call.
C17_PauseFrameAfterRecovery ==
  [][(last'.op = "pauseJob") =>
       LET j == last'.job
           opens == ~dbCache
       IN /\ jobs'[j].progressCurrent = jobs[j].progressCurrent
          /\ jobs'[j].progressTotal = jobs[j].progressTotal
          /\ jobs'[j].status = IF jobs[j].status \in {"pending", "processing"}
                                 THEN "paused" ELSE jobs[j].status
          /\ Len(job_items'[j]) = Len(job_items[j])
          /\ \A i \in DOMAIN job_items[j] :
               job_items'[j][i] = IF opens /\ job_items[j][i] = "processing"
                                     THEN "pending" ELSE job_items[j][i]]_vars

C17_Witness ==
  /\ last.op = "pauseJob"
  /\ last.from = "done"
  /\ jobs[last.job].status = "done"
  /\ jobs[last.job].progressCurrent = jobs[last.job].progressTotal

FirstAt(files, p) == CHOOSE i \in DOMAIN files : files[i] = p /\ \A k \in 1..(i - 1) : files[k] # p

C19_NoDuplicateSourcePath ==
  /\ \A j \in DOMAIN itemPaths : \A a, b \in DOMAIN itemPaths[j] :
        itemPaths[j][a] = itemPaths[j][b] => a = b
  /\ \A j \in DOMAIN itemPaths : \A i \in DOMAIN itemPaths[j] :
        ~InsertItems(itemPaths, j, <<itemPaths[j][i]>>).ok
  /\ (importCall.op = "importFiles" /\ importCall.files # <<>>) =>
       LET files == importCall.files
           rows == itemPaths[Len(itemPaths)]
       IN /\ importCall.ok
          /\ {rows[i] : i \in DOMAIN rows} = {files[i] : i \in DOMAIN files}
          /\ \A a, b \in DOMAIN rows :
                a < b => FirstAt(files, rows[a]) < FirstAt(files, rows[b])
          /\ progressTotals[Len(itemPaths)] = Cardinality({files[i] : i \in DOMAIN files})

C19_Witness ==
  /\ importCall.files = <<2, 1, 2>>
  /\ importCall.ok
  /\ itemPaths = <<<<1>>, <<2, 1>>>>
  /\ progressTotals = <<1, 2>>

\* ---- C20 ----
\* C20: when the client's message listener handles a response, it settles
\* the call whose correlation id is the response's id and no other: if that
\* call is pending it is resolved with the result of an ok response, or
\* rejected with the message of an error response, and leaves the pending
\* map; if no call of that id is pending (it timed out, or was settled
\* before), nothing is settled and the pending map is unchanged.
C20_ResponseSettlesMatchingCall ==
  [][(received' # received) =>
       LET res == responses[CHOOSE i \in DOMAIN responses :
                              responses[i].id \in received' \ received]
       IN /\ \A c \in DOMAIN settlements : c # res.id => settlements'[c] = settlements[c]
          /\ \A c \in pending : c # res.id => c \in pending'
          /\ IF res.id \in pending
             THEN /\ res.id \notin pending'
                  /\ settlements'[res.id] =
                       Append(settlements[res.id],
                              <<IF res.ok THEN "resolve" ELSE "reject", res.body>>)
                  /\ res.body[2] = res.id
             ELSE /\ pending' = pending
                  /\ settlements' = settlements]_vars

C20_Witness ==
  /\ received = {1, 2}
  /\ 3 \in requests
  /\ settlements[2] = <<<<"resolve", <<"result", 2>>>>>>
  /\ settlements[1] = <<<<"reject", <<"timeout", calls[1]>>>>>>
  /\ 3 \in pending
  /\ clientOf = <<1, 1, 1>>

\* ---- C21 ----
\* C21: when the timer of a pending call fires, that call is rejected with
\* the timeout error naming its method and leaves the pending map, and
\* nothing else changes: the request stays with the worker, which still
\* answers it, and the worker's state is untouched. When the response of a
\* call that timed out arrives later, nothing is settled.
C21_TimeoutRejectsAndLateResponseIsIgnored ==
  [][/\ (/\ pending' # pending
         /\ received' = received
         /\ children' = children
         /\ calls' = calls)
        => \E id \in pending :
             /\ settlements[id] = <<>>
             /\ pending' = pending \ {id}
             /\ settlements' = [settlements EXCEPT ![id] =
                                 << <<"reject", <<"timeout", calls[id]>>>> >>]
             /\ calls[id] \in Methods
             /\ requests' = requests
             /\ responses' = responses
             /\ workerVars' = workerVars
     /\ \A id \in received' \ received :
          (/\ settlements[id] # <<>>
           /\ settlements[id][Len(settlements[id])] = <<"reject", <<"timeout", calls[id]>>>>)
          => (settlements' = settlements /\ pending' = pending)]_vars

C21_Witness ==
  /\ Len(calls) = 1
  /\ settlements[1] = << <<"reject", <<"timeout", calls[1]>>>> >>
  /\ received = {1}
  /\ pending = {}
  /\ children = <<"running">>

\* ---- C22 ----
\* C22: when the worker process of a client exits or its transport reports an
\* error (and when dispose is called), every call pending on that client is
\* rejected with the worker-exited error, its pending map is empty afterwards,
\* the calls of other clients are untouched, and singleton is null, so that
\* the next getKnowledgeWorkerClient forks a worker.
C22_ExitRejectsPendingAndClearsSingleton ==
  [][\A g \in DOMAIN children :
       children'[g] # children[g] =>
         /\ \A id \in DOMAIN settlements :
              settlements'[id] =
                IF id \in pending /\ clientOf[id] = g
                THEN Append(settlements[id], <<"reject", <<"exited">>>>)
                ELSE settlements[id]
         /\ pending' = {id \in pending : clientOf[id] # g}
         /\ singleton' = NoClient]_vars

C22_Witness ==
  /\ children = <<"exited">>
  /\ singleton = NoClient
  /\ Len(calls) = 3
  /\ received = {1}
  /\ settlements[1] = << <<"resolve", <<"result", 1>>>> >>
  /\ settlements[2] = << <<"reject", <<"exited">>>> >>
  /\ settlements[3] = << <<"reject", <<"exited">>>> >>

\* ---- C23 ----
\* C23: at most one worker process forked by the controller is running, and
\* singleton, when set, is the client of the worker forked last.
C23_AtMostOneLiveWorker ==
  /\ Cardinality({g \in DOMAIN children : children[g] = "running"}) <= 1
  /\ singleton # NoClient => singleton = Len(children)

\* ---- C24 ----
\* C24: when the worker's listener finishes a request, it sends one response
\* carrying the id of that request; the response is {ok: false} when the
\* method is not one the worker serves.
C24_OneResponsePerRequest ==
  [][\A id \in requests \ requests' :
       children'[clientOf[id]] = children[clientOf[id]] =>
         /\ Len(responses') = Len(responses) + 1
         /\ responses'[Len(responses')].id = id
         /\ \A i \in DOMAIN responses : responses'[i] = responses[i]
         /\ responses'[Len(responses')].ok \in BOOLEAN
         /\ calls[id] \notin OwnHandlers => ~responses'[Len(responses')].ok]_vars

\* ---- C25 ----
\* C25: every segment of the worker that leaves a job with a status other
\* than the one it had before (or creates the job) sends a job:update for
\* that job, and the last one it sends for the job carries the status the
\* segment leaves. The death of the worker and the ROLLBACK of a failed
\* import, which is followed by the payload of the same item's completion,
\* are not counted.
C25_StatusChangeIsFollowedByEvent ==
  [][last'.op \notin {"crash", "rollback"} =>
       \A j \in DOMAIN jobs' :
         (j \notin DOMAIN jobs \/ jobs'[j].status # jobs[j].status) =>
           /\ \E e \in DOMAIN emitted' : emitted'[e].job = j
           /\ LET e == CHOOSE e \in DOMAIN emitted' :
                         /\ emitted'[e].job = j
                         /\ \A f \in DOMAIN emitted' : emitted'[f].job = j => f <= e
              IN emitted'[e].status = jobs'[j].status]_vars

\* ---- C26 ----
\* C26: an open applies the migrations above the recorded maximum in
\* ascending order, each in its own transaction: when migration k fails, the
\* open fails and every pending migration with a smaller id is applied and
\* recorded; when none fails, all are applied and recorded.
C26_MigrationsCommitOneByOne ==
  [][dbOpens' # dbOpens =>
       LET o == dbOpens'[Len(dbOpens')]
           before == {m \in 1..MigrationCount : m > o.from}
       IN IF o.failAt = 0
          THEN /\ o.ok
               /\ before \subseteq schema_migrations'
               /\ before \subseteq schemaApplied'
          ELSE /\ ~o.ok
               /\ o.failAt \notin schema_migrations'
               /\ \A m \in before : m < o.failAt =>
                    (m \in schema_migrations' /\ m \in schemaApplied')]_vars

\* ---- C29 ----
\* C29: the chunks of a text, taken in order and joined after dropping from
\* each chunk but the first the overlap it shares with its predecessor, are
\* the text.
RECURSIVE JoinChunks(_)
JoinChunks(parts) ==
  IF parts = <<>> THEN <<>>
  ELSE IF Len(parts) = 1 THEN parts[1]
  ELSE JoinChunks(SubSeq(parts, 1, Len(parts) - 1))
         \o SliceFrom(parts[Len(parts)], Overlap)

C29_ChunksReconstructText == JoinChunks(chunkOut) = chunkIn

\* C40: with 0 <= Overlap < ChunkSize the chunker ends on every text, every
\* chunk it emits is non-empty and at most ChunkSize characters long, every
\* chunk but the last is exactly ChunkSize characters long, and a text that
\* is not blank yields at least one chunk.
C40_ChunksAreNonEmptyAndBounded ==
  /\ \A i \in DOMAIN chunkOut :
       /\ Len(chunkOut[i]) >= 1
       /\ Len(chunkOut[i]) <= ChunkSize
       /\ i < Len(chunkOut) => Len(chunkOut[i]) = ChunkSize
  /\ trim(chunkIn) # <<>> => chunkOut # <<>>

\* a text with white space was cut into full chunks and a shorter last one
C40_Witness ==
  /\ Len(chunkOut) >= 2
  /\ Len(chunkOut[Len(chunkOut)]) < ChunkSize
  /\ \E i \in DOMAIN chunkIn : chunkIn[i] = " "
  /\ Len(chunkIn) > ChunkSize

\* C27: when an import raises an exception after its document row was
\* inserted, the transaction is rolled back, the blob written so far is
\* removed (unless the removal itself fails, which is ignored) and 'failed'
\* is returned instead of thrown: from the rollback on, no document row and
\* no chunk row of that import attempt is in the store.
C27_FailedImportLeavesNoRows ==
  /\ \A k \in DOMAIN attempts :
       (attempts[k].kind = "file" /\ attempts[k].status = "failed") =>
         /\ k \notin DOMAIN documents
         /\ k \notin DOMAIN chunks
         /\ attempts[k].rm = "removed" => k \notin DOMAIN blobs
         /\ imp.doc # k
  /\ imp.pc = "cleanup" =>
       /\ imp.doc \notin DOMAIN documents
       /\ imp.doc \notin DOMAIN chunks
       /\ docTx = <<>>

\* an import that failed after a chunk of it was inserted and its blob was
\* written, beside a committed document the rollback left alone
C27_Witness ==
  /\ Len(attempts) = 2
  /\ attempts[1].status = "created"
  /\ attempts[2] = [kind |-> "file", status |-> "failed",
                    source |-> <<"a", "a">>, rm |-> "removed"]
  /\ DOMAIN documents = {1}
  /\ DOMAIN blobs = {}
  /\ imp.pc = "idle"

\* C28: for every file document whose job item reached 'done' (or 'skipped'
\* with a document: a file that is stored but not indexed), the document row
\* is committed with a non-null sha256 and its blob file exists with the
\* full content of the file.
C28_DoneItemHasCommittedDocumentAndBlob ==
  \A k \in DOMAIN attempts :
    (attempts[k].kind = "file" /\ attempts[k].status \in {"done", "skipped"}
       /\ attempts[k].source # <<>>) =>
      /\ k \in DOMAIN documents
      /\ documents[k].kind = "file"
      /\ documents[k].sha256
      /\ docTx # <<>> => k \in DOMAIN docTx[1].documents /\ docTx[1].documents[k].sha256
      /\ k \in DOMAIN blobs
      /\ blobs[k] = attempts[k].source

\* a done file whose content came in two buffers, while a later import has
\* the transaction open
C28_Witness ==
  /\ Len(attempts) = 2
  /\ attempts[1].status = "done"
  /\ attempts[1].source = <<"a", " ">>
  /\ blobs[1] = <<"a", " ">>
  /\ documents[1].sha256
  /\ imp.pc = "closing"
  /\ docTx # <<>>

IsPrefix(s, t) == Len(s) <= Len(t) /\ SubSeq(t, 1, Len(s)) = s

\* C30: the chunks of a document are inserted with chunk_index 0, 1, 2, ...
\* in that order, without gap or repeat, and a chunk that was inserted is
\* not modified while its document stays in the store; for imported files
\* and for notes.
C30_ChunkIndexCountsFromZero ==
  [][/\ \A d \in DOMAIN chunks' :
          \A i \in DOMAIN chunks'[d] : chunks'[d][i].chunk_index = i - 1
     /\ \A d \in DOMAIN chunks \cap DOMAIN chunks' :
          IsPrefix(chunks[d], chunks'[d])]_vars

\* a note of two chunks and a file import that has inserted its second chunk
C30_Witness ==
  /\ 1 \in DOMAIN documents /\ documents[1].kind = "note"
  /\ Len(chunks[1]) = 2
  /\ imp.pc = "closing" /\ imp.doc = 2
  /\ Len(chunks[2]) = 2
  /\ chunks[2][2].chunk_index = 1

\* C31: an import of a file with a zero byte anywhere in its content, in the
\* first buffer read or in a later one, that ran to its end leaves a
\* committed document with sha256 set, the blob a full copy of the file, and
\* no chunk row of that document.
C31_FileWithNulHasNoChunks ==
  \A k \in DOMAIN attempts :
    (attempts[k].kind = "file" /\ attempts[k].status \in {"done", "skipped"}
       /\ bufferLooksBinary(attempts[k].source)) =>
      /\ k \in DOMAIN documents
      /\ documents[k].sha256
      /\ docTx # <<>> => k \in DOMAIN docTx[1].documents
      /\ k \in DOMAIN blobs /\ blobs[k] = attempts[k].source
      /\ chunks[k] = <<>>

\* C32: deleteKnowledgeBaseDir with confirmed = false throws and leaves
\* every knowledge base directory (manifest, database, blobs) as it was; a
\* directory disappears only in a deleteKnowledgeBaseDir call for it with
\* confirmed = true, and after such a call it is gone.
C32_DeleteNeedsConfirmation ==
  [][/\ (kbLast'.n # kbLast.n /\ kbLast'.op = "delete") =>
          IF kbLast'.confirmed
          THEN ~kbLast'.threw /\ kbLast'.kbId \notin DOMAIN kbDirs'
          ELSE kbLast'.threw /\ kbDirs' = kbDirs
     /\ \A kbId \in DOMAIN kbDirs \ DOMAIN kbDirs' :
          kbLast'.op = "delete" /\ kbLast'.confirmed /\ kbLast'.kbId = kbId]_vars

\* an unconfirmed delete of an existing, renamed knowledge base has thrown
\* and the directory is as it was
C32_Witness ==
  /\ kbLast.op = "delete" /\ ~kbLast.confirmed /\ kbLast.threw
  /\ kbLast.kbId \in DOMAIN kbDirs
  /\ kbDirs[kbLast.kbId] = [manifest |-> [name |-> "x", updatedAt |-> 2],
                             blobs |-> TRUE, db |-> TRUE]

\* C34: what pauseJob, resumeJob and cancelJob wrote while a file was
\* mid-import stays in effect when the import ends: the ROLLBACK of a failed
\* import changes no job row and no job item row (no write of another
\* operation was made inside the import's transaction).
C34_RollbackUndoesNoOtherWrite ==
  [][last'.op = "rollback" => jobs' = jobs /\ job_items' = job_items]_vars

\* C35: while the worker has the store open, every job with status
\* 'processing' is the job the running slot runningByKb names: no job stays
\* 'processing' without a run loop.
C35_ProcessingJobHasRunLoop ==
  dbCache => \A j \in DOMAIN jobs : jobs[j].status = "processing" => runningByKb = j

\* C36: a pending job is never stranded: the worker is never left, after a
\* handler or a run loop segment has ended, with a pending job, no paused job
\* and no run loop (nothing but a further user call would start that job).
C36_PendingJobIsNotStranded ==
  ~(/\ dbCache
    /\ runningByKb = NoJob
    /\ \E j \in DOMAIN jobs : jobs[j].status = "pending"
    /\ \A j \in DOMAIN jobs : jobs[j].status # "paused")

\* the run loop of kb will leave at its next pass because its job is in
\* inMemoryCanceledJobs
LoopIsCanceled(kb) ==
  /\ kbStores[kb].runningByKb # NoJob
  /\ <<kb, kbStores[kb].runningByKb>> \in kbCanceled

\* C37: a pauseJob, resumeJob or cancelJob call addressed to one knowledge
\* base changes no job, no item and no run loop of the other knowledge base,
\* whatever job id it carries.
C37_CallLeavesOtherKbAlone ==
  [][(kbCall'.n # kbCall.n /\ kbCall'.op \in {"pauseJob", "resumeJob", "cancelJob"}) =>
       \A kb \in Kbs \ {kbCall'.kb} :
         /\ kbStores'[kb] = kbStores[kb]
         /\ LoopIsCanceled(kb)' = LoopIsCanceled(kb)]_vars

\* C38: each job item has at most one committed document, also when the
\* worker died at some point, the item was reset from 'processing' to
\* 'pending' by the recovery pass and imported again.
C38_OneDocumentPerItem ==
  \A a, b \in DOMAIN itemDocs : itemDocs[a] = itemDocs[b] => a = b

\* a call is settled at most once and is in pending exactly while unsettled
SettledOnce ==
  \A id \in DOMAIN calls :
    /\ Len(settlements[id]) <= 1
    /\ id \in pending <=> settlements[id] = <<>>

Subscribed(h) ==
  \E k \in DOMAIN subscriptions :
    subscriptions[k].handler = h /\ ~subscriptions[k].unsubscribed

\* C33: on every event message the handler of every subscription that is
\* still subscribed is invoked once, also when another handler throws, and a
\* handler with no such subscription is not invoked; a second call of an
\* unsubscribe function changes nothing for the other subscriptions.
C33_SubscribedHandlersGetEveryEvent ==
  [][/\ eventCount' # eventCount =>
          \A h \in HandlerFunctions :
            invocations'[h] = invocations[h] + (IF Subscribed(h) THEN 1 ELSE 0)
     /\ \A k \in DOMAIN subscriptions :
          (subscriptions[k].unsubscribed /\ evOps' # evOps
             /\ subscriptions' = subscriptions /\ eventCount' = eventCount) =>
            eventHandlers' = eventHandlers]_vars

TypeOK ==
  /\ \A j \in DOMAIN jobs : jobs[j].status \in JobStatus
  /\ DOMAIN job_items = DOMAIN jobs
  /\ \A j \in DOMAIN jobs : \A i \in DOMAIN job_items[j] : job_items[j][i] \in JobItemStatus
  /\ pc \in {"idle", "stat", "copy", "cleanup"}
  /\ (pc = "idle") <=> (runningByKb = NoJob)
  /\ (txSnapshot # <<>>) <=> (pc = "copy")
====
